---- MODULE Spec2Model ----
(***************************************************************************)
(* A model of the voice gateway of wildsky/cloudflare-voicebots:           *)
(*   - VoiceAgent: transcript accumulation, LLM generations with abort,    *)
(*     and the sentence segmenter that flushes text deltas to TTS;         *)
(*   - TwilioVoiceAgent: the media-stream handlers and the greeting;       *)
(*   - the STT adapters (AssemblyAIStt, DeepgramStt) and their reconnect;  *)
(*   - the TTS adapters (InworldTTS, ElevenLabsTTS) and sendText.          *)
(* Text is a sequence of one-character strings, so that trim(), join() and *)
(* the last-character test are computed, not assumed.                      *)
(***************************************************************************)
EXTENDS Integers, Sequences, FiniteSets, TLC

VARIABLES
    \* ---- VoiceAgent (src/src/agent/voice-agent.ts, src/unnamed/part_013)
    started,                \* the framework has run onStart to completion
    stt,                    \* this.stt is assigned
    tts,                    \* this.tts is assigned
    transcriptAccumulator,  \* this.transcriptAccumulator: the fragment texts
    messages,               \* this.messages: the committed conversation log
    currentAbortController, \* 0 = undefined, else the generation it controls
    genStatus,              \* per generation: unused, running, aborted, finished
    textBuffer,             \* this.textBuffer
    \* ---- history of the VoiceAgent (what the handlers were given and did)
    bufSrc,                 \* per character of textBuffer, the generation it came from
    chunkLog,               \* every chunk handed to onNewGeneratedChunk, in order
    ttsCalls,               \* every call this.tts.sendText(text, flush), in order
    transcriptLog,          \* every transcript handed to handleTranscript, in order
    abortSeen,              \* a generation was aborted while it was still running
    replacedSessions,       \* the services of which onStart replaced a session without closing it
    \* ---- TwilioVoiceAgent (src/unnamed/part_006, src/src/agent/twilio-voice-agent.ts)
    agentVersion,           \* which of the two TwilioVoiceAgent sources runs
    currentStreamSid,       \* this.currentStreamSid, NoSid = undefined
    currentCallSid,         \* this.currentCallSid is set
    currentCallerId,        \* this.currentCallerId is set
    currentUser,            \* this.currentUser holds a user record
    twilioConnection,       \* this.twilioConnection is set
    greetingSent,           \* this.greetingSent
    awaitingGreeting,       \* per handler, how many invocations await sendText(greeting)
    \* ---- history of the TwilioVoiceAgent
    twilioLog,              \* every event handled, in order
    greetings,              \* every call this.tts.sendText(greeting, true), in order
    sttAudio,               \* audio chunks handed to this.stt.sendAudioChunk
    closedSessions,         \* the services whose session the agent has closed
    twilioOnAudio,          \* a handler's onStart registered the Twilio audio callback
    lastAudio,              \* the latest TTS audio chunk and the frame written for it
    lastDeliveries,         \* the frames the audio callbacks sent for that chunk, in order
    \* ---- STT adapter (AssemblyAIStt in src/unnamed/part_006, DeepgramStt in
    \*      src/src/services/stt/deepgram.ts)
    sttKind,                \* which adapter class the instance is
    ws,                     \* readyState of this.ws / this.session, or "undefined"
    orphans,                \* per readyState, the live sockets created earlier that
                            \* this.ws no longer refers to (their handlers stay attached)
    created,                \* how many sockets the adapter has created
    shouldReconnect,        \* this.shouldReconnect
    reconnectAttempts,      \* this.reconnectAttempts (AssemblyAIStt)
    reconnectTimers,        \* reconnect timers set by setTimeout and not yet fired
    pendingConnects,        \* connect() calls awaiting the token fetch (AssemblyAIStt)
    tokenValid,             \* isTokenValid(): a cached token that has not expired
    \* ---- history of the STT adapter
    sttClosed,              \* the owner called close() and has not called connect() since
    createdAfterClose,      \* a socket was created while sttClosed
    gaveUp,                 \* the close handler gave up and the owner has not called connect() since
    createdAfterGiveUp,     \* a socket was created while gaveUp
    lastCall,              \* how the owner's latest connect() or sendAudioChunk() call went
    lastDelay,              \* the delay of the latest reconnect timer set since a socket opened, in ms
    \* ---- TTS adapter (InworldTTS in src/src/services/tts/inworld-tts.ts,
    \*      ElevenLabsTTS in src/src/services/tts/elevenlabs.ts)
    ttsKind,                \* which adapter class the instance is
    ttsWs,                  \* readyState of this.ws, or "null" (ElevenLabsTTS)
    ttsOrphans,             \* per readyState, the live sockets this.ws no longer refers to
    ttsCreated,             \* how many sockets the adapter has created
    isConnected,            \* this.isConnected
    ttsShouldReconnect,     \* this.shouldReconnect
    ttsTimers,              \* reconnect timers set by reconnect() and not yet fired
    heartbeatInterval,      \* this.heartbeatInterval holds a handle
    intervals,              \* heartbeat intervals set by setInterval and not cleared
    audioCallbacks,         \* the owner's callback is registered with onAudio
    waitingSends,           \* sendText calls polling for the connection
    \* ---- history of the TTS adapter
    sendLog,                \* how every sendText call went, in order
    providerLog,            \* every message or request that reached the provider
    audioFor,               \* the entries of providerLog whose audio reached the callback
    audioOrder,             \* the requests in the order their first audio reached the callbacks
    ttsClosed,              \* the owner called close() and has not called connect() since
    ttsCreatedAfterClose,   \* a reconnect timer created a socket while ttsClosed
    wire,                   \* the kinds of the first messages delivered on the socket of this.ws
    sentOrder,              \* the sendText calls, by number, in the order their text went out
    unsettledConnects,      \* connect() promises whose socket closed before it ever opened
    \* ---- the callback lists of the four adapters (transcriptionCallbacks,
    \*      callbacks, audioCallbacks) and the history of their use
    cbKind,                 \* which adapter class the list belongs to
    callbacks,              \* the registered callbacks, in registration order
    removed,                \* callbacks unregistered and not registered again since
    lastEvent,              \* the provider's latest event and the callbacks it invoked
    \* ---- the audio codecs (src/src/services/tts/inworld-tts.ts,
    \*      src/src/services/twilio/twilio-service.ts, src/unnamed/part_002)
    sample,                 \* the 16-bit PCM sample given to linearToMulaw
    mulaw,                  \* the mu-law bytes encoded from it
    pcmOut,                 \* the PCM samples decoded from those bytes
    wavBytes,               \* the buffer given to extractMulawFromWav
    wavData,                \* the bytes of the data chunk the buffer was built with
    hasData,                \* the buffer was built with a data chunk
    extractDone,            \* extractMulawFromWav has returned
    extracted,              \* what it returned
    \* ---- the routing of a call's requests to TwilioVoiceAgent instances
    \*      (src/src/server.ts, src/src/routes/twilio.ts, src/unnamed/part_006)
    doStorage,              \* per instance name, the keys held by this.ctx.storage
    streamUrls,             \* the WebSocket URLs handed to Twilio and not yet connected to
    lastUpgrade             \* the latest WebSocket upgrade: where it went and what it found

voiceVars == << started, stt, tts, transcriptAccumulator, messages,
                currentAbortController, genStatus, textBuffer, bufSrc,
                chunkLog, ttsCalls, transcriptLog, abortSeen, replacedSessions >>

\* The VoiceAgent's variables other than the service fields and their history.
voiceRest == << started, transcriptAccumulator, messages, currentAbortController,
                genStatus, textBuffer, bufSrc, chunkLog, ttsCalls, transcriptLog,
                abortSeen >>

twilioVars == << agentVersion, currentStreamSid, currentCallSid, currentCallerId,
                 currentUser, twilioConnection, greetingSent, awaitingGreeting,
                 twilioLog, greetings, sttAudio, closedSessions, twilioOnAudio,
                 lastAudio, lastDeliveries >>

sttVars == << sttKind, ws, orphans, created, shouldReconnect, reconnectAttempts,
              reconnectTimers, pendingConnects, tokenValid, sttClosed,
              createdAfterClose, gaveUp, createdAfterGiveUp, lastCall, lastDelay >>

ttsVars == << ttsKind, ttsWs, ttsOrphans, ttsCreated, isConnected,
              ttsShouldReconnect, ttsTimers, heartbeatInterval, intervals,
              audioCallbacks, waitingSends, sendLog, providerLog, audioFor, audioOrder,
              ttsClosed, ttsCreatedAfterClose, wire, sentOrder,
              unsettledConnects >>

cbVars == << cbKind, callbacks, removed, lastEvent >>

wavVars == << wavBytes, wavData, hasData, extractDone, extracted >>

codecVars == << sample, mulaw, pcmOut, wavVars >>

routeVars == << doStorage, streamUrls, lastUpgrade >>

\* What each component leaves alone: the variables of the other components.
outsideVoice == << twilioVars, sttVars, ttsVars, cbVars, codecVars, routeVars >>
outsideTwilio == << sttVars, ttsVars, cbVars, codecVars, routeVars >>
outsideStt == << voiceVars, twilioVars, ttsVars, cbVars, codecVars, routeVars >>
outsideTts == << voiceVars, twilioVars, sttVars, cbVars, codecVars, routeVars >>
outsideCallbacks == << voiceVars, twilioVars, sttVars, ttsVars, codecVars, routeVars >>
outsideCodec == << voiceVars, twilioVars, sttVars, ttsVars, cbVars, routeVars >>
outsideRoute == << voiceVars, twilioVars, sttVars, ttsVars, cbVars, codecVars >>

----------------------------------------------------------------------------
(* Bounds of the model.                                                    *)

MaxGenerations == 2   \* LLM generations started per session
MaxChunks == 3        \* chunks delivered to onNewGeneratedChunk per session
MaxTranscripts == 3   \* transcript events delivered to handleTranscript
MaxTwilioEvents == 3  \* events handled by the TwilioVoiceAgent per call
MaxSockets == 5       \* WebSockets an STT adapter creates, those being fetched for included
MaxSends == 1         \* sendText calls made on a TTS adapter
MaxMessages == 2      \* messages and requests that reach the TTS provider
MaxTtsSockets == 3    \* WebSockets a TTS adapter creates
MaxFrames == 2        \* audio frames a client sends to the VoiceAgent
MaxRegistered == 2    \* callbacks registered with an adapter at one time
MaxWire == 2          \* messages of a TTS socket the history keeps
MaxData == 4          \* bytes in the data chunk of a WAV buffer
MaxFlushes == 2       \* sentences one generation flushes to the TTS adapter

----------------------------------------------------------------------------
(* Text.                                                                   *)

NL == "\n"
ELLIPSIS == "U+2026"
IDEOGRAPHIC_STOP == "U+3002"

\* const sentence_fragment_delimiters = ".?!;:,\n...)]}。-"
sentence_fragment_delimiters ==
    {".", "?", "!", ";", ":", ",", NL, ELLIPSIS, ")", "]", "}", IDEOGRAPHIC_STOP, "-"}

\* const full_sentence_delimiters = ".?!\n...。"
full_sentence_delimiters == {".", "?", "!", NL, ELLIPSIS, IDEOGRAPHIC_STOP}

\* The characters String.prototype.trim() removes, among those the model uses.
WhiteSpace == {" ", NL}

RECURSIVE TrimStart(_)
TrimStart(s) ==
    IF s # <<>> /\ Head(s) \in WhiteSpace THEN TrimStart(Tail(s)) ELSE s

RECURSIVE TrimEnd(_)
TrimEnd(s) ==
    IF s # <<>> /\ s[Len(s)] \in WhiteSpace
    THEN TrimEnd(SubSeq(s, 1, Len(s) - 1))
    ELSE s

\* String.prototype.trim()
Trim(s) == TrimEnd(TrimStart(s))

\* The number of characters trim() removes at the start.
LeadingWs(s) == Len(s) - Len(TrimStart(s))

\* Array.prototype.join(sep) on an array of texts.
RECURSIVE Join(_, _)
Join(parts, sep) ==
    IF parts = <<>> THEN <<>>
    ELSE IF Len(parts) = 1 THEN parts[1]
    ELSE parts[1] \o sep \o Join(Tail(parts), sep)

\* The texts of the model, spelled out character by character.
sHello == <<"H", "e", "l", "l", "o">>
sWorld == <<" ", "w", "o", "r", "l", "d">>
sDot == <<".">>
sNewline == <<NL>>
sSpace == <<" ">>
sEmpty == <<>>
sHi == <<"H", "i", ".">>
sHelloWorld == sHello \o sWorld \o sDot

\* The text deltas the LLM stream may deliver.
Deltas == {sHello, sWorld, sDot, sNewline, sSpace, sEmpty, sHi}

\* The results a tool-result chunk may carry: a string, or something else.
NotAString == <<"{}">>
ToolResults == {sHi, sDot, NotAString}

\* The transcript texts the STT session may deliver.
sWhat == <<"w", "h", "a", "t">>
sIsUp == <<"i", "s", " ", "u", "p">>
TranscriptTexts == {sEmpty, sWhat, sIsUp}

Generations == 1..MaxGenerations

----------------------------------------------------------------------------
(* VoiceAgent: the state after construction.                               *)

InitVoice ==
    /\ started = FALSE
    /\ stt = FALSE
    /\ tts = FALSE
    /\ transcriptAccumulator = <<>>
    /\ messages = <<>>
    /\ currentAbortController = 0
    /\ genStatus = [g \in Generations |-> "unused"]
    /\ textBuffer = <<>>
    /\ bufSrc = <<>>
    /\ chunkLog = <<>>
    /\ ttsCalls = <<>>
    /\ transcriptLog = <<>>
    /\ abortSeen = FALSE
    /\ replacedSessions = {}

\* `this.stt = new DeepgramStt(...)` and `this.tts = new InworldTTS(...)` assign
\* the fields whatever they hold: onStart calls close() on neither, so a session
\* a field referred to stays as it was, its callback registered.  The TTS field
\* is assigned only when `await this.stt.connect()` resolved.
ReplacedByOnStart(reachesTts) ==
    replacedSessions
        \cup (IF stt THEN {"stt"} ELSE {})
        \cup (IF reachesTts /\ tts THEN {"tts"} ELSE {})

\* VoiceAgent.onStart, every await resolving: both services are assigned and
\* connected, and the framework then delivers requests to the agent.
OnStart ==
    /\ ~started
    /\ stt' = TRUE
    /\ tts' = TRUE
    /\ replacedSessions' = ReplacedByOnStart(TRUE)
    /\ started' = TRUE
    /\ UNCHANGED << transcriptAccumulator, messages, currentAbortController,
                    genStatus, textBuffer, bufSrc, chunkLog, ttsCalls,
                    transcriptLog, abortSeen >>
    /\ UNCHANGED outsideVoice

\* VoiceAgent.onStart when `await this.stt.connect()` rejects: this.stt is
\* assigned, the statements after the await never run, the agent is not started.
OnStartSttFails ==
    /\ ~started
    /\ stt' = TRUE
    /\ replacedSessions' = ReplacedByOnStart(FALSE)
    /\ UNCHANGED << started, tts, transcriptAccumulator, messages,
                    currentAbortController, genStatus, textBuffer, bufSrc,
                    chunkLog, ttsCalls, transcriptLog, abortSeen >>
    /\ UNCHANGED outsideVoice

\* VoiceAgent.onStart when `await this.tts.connect()` rejects: both fields are
\* assigned and the STT session is connected; the audio callback is not
\* registered and the agent is not started.
OnStartTtsFails ==
    /\ ~started
    /\ stt' = TRUE
    /\ tts' = TRUE
    /\ replacedSessions' = ReplacedByOnStart(TRUE)
    /\ UNCHANGED << started, transcriptAccumulator, messages,
                    currentAbortController, genStatus, textBuffer, bufSrc,
                    chunkLog, ttsCalls, transcriptLog, abortSeen >>
    /\ UNCHANGED outsideVoice

----------------------------------------------------------------------------
(* VoiceAgent.onChatMessage: abort the previous generation, start a new one. *)

UsedGenerations == {g \in Generations : genStatus[g] # "unused"}
InFlight == {g \in Generations : genStatus[g] = "running"}
NextGeneration == Cardinality(UsedGenerations) + 1

\* A variant of AbortExisting that forgets the abort() call.
AbortExistingSkipped(status, ctrl) == status

\* if (this.currentAbortController) this.currentAbortController.abort();
\* aborting the controller of a generation that already finished changes nothing.
AbortExisting(status, ctrl) ==
    IF ctrl # 0 /\ status[ctrl] = "running"
    THEN [status EXCEPT ![ctrl] = "aborted"]
    ELSE status

\* Steps 2, 3 and 5 of onChatMessage's execute callback, which run without an
\* await between them: abort, new AbortController, streamText with its signal.
StartGeneration ==
    /\ NextGeneration \in Generations
    /\ genStatus' = [AbortExisting(genStatus, currentAbortController)
                        EXCEPT ![NextGeneration] = "running"]
    /\ currentAbortController' = NextGeneration
    /\ abortSeen' = (abortSeen \/ (currentAbortController # 0
                                   /\ genStatus[currentAbortController] = "running"))

\* A chat message arrives (from the chat client or from saveMessages).
OnChatMessage ==
    /\ started
    /\ StartGeneration
    /\ UNCHANGED << started, stt, tts, replacedSessions, transcriptAccumulator, messages,
                    textBuffer, bufSrc, chunkLog, ttsCalls, transcriptLog >>
    /\ UNCHANGED outsideVoice

----------------------------------------------------------------------------
(* VoiceAgent.onNewGeneratedChunk: the sentence segmenter.                 *)

\* full_sentence_delimiters.includes(textDelta[textDelta.length - 1]): for an
\* empty delta the index yields undefined, and includes(undefined) searches for
\* the text "undefined", which the delimiter string does not contain.
IsEndOfSentence(textDelta) ==
    /\ Len(textDelta) > 0
    /\ textDelta[Len(textDelta)] \in full_sentence_delimiters

\* A variant of FlushText that forgets trim().
FlushTextUntrimmed(buffer) == buffer

\* The text a flush passes to sendText: this.textBuffer.trim()
FlushText(buffer) == Trim(buffer)

\* The generations the characters of buffer.trim() came from.
FlushSrc(buffer, src) ==
    { src[i] : i \in (LeadingWs(buffer) + 1)..(LeadingWs(buffer) + Len(Trim(buffer))) }

\* The text-delta branch's decision to flush.
DeltaFlushes(chunk) == IsEndOfSentence(chunk.textDelta)

\* A variant of FinishFlushes that tests the buffer without trim().
FinishFlushesUntrimmed(buffer) == buffer # <<>>

\* The finish branch's decision to flush: if (this.textBuffer.trim())
FinishFlushes(buffer) == Trim(buffer) # <<>>

\* The tool-result branch's decision to speak: typeof chunk.result === "string"
ToolResultSpoken(chunk) == chunk.result # NotAString

\* The chunks a generation may hand to onChunk.
ChunkInputs ==
    [type : {"text-delta"}, textDelta : Deltas, result : {sEmpty}]
    \cup [type : {"finish", "tool-call"}, textDelta : {sEmpty}, result : {sEmpty}]
    \cup [type : {"tool-result"}, textDelta : {sEmpty}, result : ToolResults]

\* One sendText call as the TTS session sees it, with where it came from.
TtsCall(text, at, g, src) ==
    [text |-> text, flush |-> TRUE, at |-> at, gen |-> g, src |-> src]

\* this.tts?.sendText(...): no call when this.tts is not assigned.
SendToTts(calls, call) == IF tts THEN Append(calls, call) ELSE calls

OnNewGeneratedChunk(g, chunk) ==
    /\ started
    /\ genStatus[g] = "running"
    /\ Len(chunkLog) < MaxChunks
    /\ chunkLog' = Append(chunkLog, [type |-> chunk.type, textDelta |-> chunk.textDelta,
                                     result |-> chunk.result, gen |-> g])
    /\ LET at == Len(chunkLog) + 1
           appended == textBuffer \o chunk.textDelta
           appendedSrc == bufSrc \o [i \in 1..Len(chunk.textDelta) |-> g]
       IN CASE chunk.type = "text-delta" ->
                 IF DeltaFlushes(chunk)
                 THEN /\ ttsCalls' = SendToTts(ttsCalls,
                              TtsCall(FlushText(appended), at, g, FlushSrc(appended, appendedSrc)))
                      /\ textBuffer' = <<>>
                      /\ bufSrc' = <<>>
                 ELSE /\ textBuffer' = appended
                      /\ bufSrc' = appendedSrc
                      /\ UNCHANGED ttsCalls
            [] chunk.type = "tool-result" ->
                 /\ ttsCalls' = IF ToolResultSpoken(chunk)
                                THEN SendToTts(ttsCalls, TtsCall(chunk.result, at, g, {g}))
                                ELSE ttsCalls
                 /\ UNCHANGED << textBuffer, bufSrc >>
            [] chunk.type = "finish" ->
                 IF FinishFlushes(textBuffer)
                 THEN /\ ttsCalls' = SendToTts(ttsCalls,
                              TtsCall(FlushText(textBuffer), at, g, FlushSrc(textBuffer, bufSrc)))
                      /\ textBuffer' = <<>>
                      /\ bufSrc' = <<>>
                 ELSE UNCHANGED << ttsCalls, textBuffer, bufSrc >>
            [] OTHER -> UNCHANGED << ttsCalls, textBuffer, bufSrc >>
    /\ genStatus' = IF chunk.type = "finish"
                    THEN [genStatus EXCEPT ![g] = "finished"]
                    ELSE genStatus
    /\ UNCHANGED << started, stt, tts, replacedSessions, transcriptAccumulator, messages,
                    currentAbortController, transcriptLog, abortSeen >>
    /\ UNCHANGED outsideVoice

----------------------------------------------------------------------------
(* VoiceAgent.handleTranscript.                                            *)

TranscriptInputs == [text : TranscriptTexts, isFinal : BOOLEAN]

\* A variant of Accumulate that keeps only the latest fragment.
AccumulateLatest(acc, transcript) ==
    IF Len(transcript.text) > 0 THEN << transcript.text >> ELSE acc

\* if (transcript.text.length > 0) this.transcriptAccumulator.push(...)
Accumulate(acc, transcript) ==
    IF Len(transcript.text) > 0 THEN Append(acc, transcript.text) ELSE acc

\* A variant of Commits that does not wait for the final transcript.
CommitsAnyTranscript(acc, transcript) == Len(acc) > 0

\* if (transcript.isFinal && this.transcriptAccumulator.length > 0)
Commits(acc, transcript) == transcript.isFinal /\ Len(acc) > 0

\* A variant of FinalTranscript that joins the fragments without a separator.
FinalTranscriptUnspaced(acc) == [role |-> "user", content |-> Join(acc, <<>>), parts |-> acc]

\* content: this.transcriptAccumulator.map((part) => part.text).join(" ")
FinalTranscript(acc) == [role |-> "user", content |-> Join(acc, <<" ">>), parts |-> acc]

\* handleTranscript; saveMessages persists the log and then runs onChatMessage.
HandleTranscript(transcript) ==
    /\ started
    /\ Len(transcriptLog) < MaxTranscripts
    /\ transcriptLog' = Append(transcriptLog, transcript)
    /\ LET acc == Accumulate(transcriptAccumulator, transcript)
       IN IF Commits(acc, transcript)
          THEN /\ transcriptAccumulator' = <<>>
               /\ messages' = Append(messages, FinalTranscript(acc))
               /\ StartGeneration
          ELSE /\ transcriptAccumulator' = acc
               /\ UNCHANGED << messages, genStatus, currentAbortController, abortSeen >>
    /\ UNCHANGED << started, stt, tts, replacedSessions, textBuffer, bufSrc, chunkLog,
                    ttsCalls >>
    /\ UNCHANGED outsideVoice

----------------------------------------------------------------------------
(* VoiceAgent.onMessage: an audio frame from the client goes to STT.       *)

\* if (message instanceof ArrayBuffer) { await this.stt?.sendAudioChunk(message); return; }
OnMessageAudio ==
    /\ started
    /\ sttAudio < MaxFrames
    /\ sttAudio' = IF stt THEN sttAudio + 1 ELSE sttAudio
    /\ UNCHANGED voiceVars
    /\ UNCHANGED << agentVersion, currentStreamSid, currentCallSid, currentCallerId,
                    currentUser, twilioConnection, greetingSent, awaitingGreeting,
                    twilioLog, greetings, closedSessions, twilioOnAudio, lastAudio, lastDeliveries >>
    /\ UNCHANGED outsideTwilio

----------------------------------------------------------------------------
(* TwilioVoiceAgent.  Two sources define it: the single-Durable-Object     *)
(* version (src/unnamed/part_006), which accepts the media WebSocket       *)
(* itself and starts the services from its handlers, and the earlier       *)
(* version (src/src/agent/twilio-voice-agent.ts), which the framework      *)
(* starts before it delivers a message.                                    *)

NoSid == "undefined"
CallStream == "MZ1"
OtherStream == "MZ2"
StreamSids == {CallStream, OtherStream}

\* The handlers that set the greeting flag after `await sendText(greeting)`.
Handlers == {"start", "connected"}

AgentVersions == {"singleDO", "legacy"}

\* What the history keeps of the latest audio chunk the TTS adapter handed to the
\* agent's callback: the stream id at that time, and the frame written, if any.
AudioRecord(seen, sid, frame, to) ==
    [seen |-> seen, sid |-> sid, frame |-> frame, to |-> to, chunk |-> "none",
     during |-> FALSE]

NoFrame == [event |-> "none"]
NoAudio == AudioRecord(FALSE, NoSid, NoFrame, "none")

\* The fields of a TwilioVoiceAgent of the given version, as constructed.
InitTwilio(version) ==
    /\ agentVersion = version
    /\ currentStreamSid = NoSid
    /\ currentCallSid = FALSE
    /\ currentCallerId = FALSE
    /\ currentUser = FALSE
    /\ twilioConnection = FALSE
    /\ greetingSent = FALSE
    /\ awaitingGreeting = [h \in Handlers |-> 0]
    /\ twilioLog = <<>>
    /\ greetings = <<>>
    /\ sttAudio = 0
    /\ closedSessions = {}
    /\ twilioOnAudio = FALSE
    /\ lastAudio = NoAudio
    /\ lastDeliveries = << >>

\* How `await this.onStart()` inside a handler ends: every await resolves, or
\* stt.connect() rejects (this.tts is never assigned), or tts.connect() rejects
\* (this.tts is assigned before that await).
OnStartOutcomes == {"ok", "sttConnectFails", "ttsConnectFails"}

\* this.stt after onStart: assigned before the first await.
SttAfterOnStart(outcome) == TRUE

\* this.tts after onStart.
TtsAfterOnStart(outcome) == IF outcome = "sttConnectFails" THEN tts ELSE TRUE

\* The sessions replaced once a handler's `if (!this.tts) await this.onStart()`
\* is over: onStart assigns this.stt first, and this.tts when stt.connect()
\* resolved.
SessionsReplaced(init, outcome) ==
    IF init THEN ReplacedByOnStart(outcome # "sttConnectFails") ELSE replacedSessions

\* TwilioVoiceAgent.onStart registers its audio callback after `await
\* super.onStart()`, so only when every await of it resolved.
Registers(outcome) == outcome = "ok"

\* How `await this.tts.sendText(...)` ends.
SendOutcomes == {"resolved", "rejected"}

Logged(event) == Append(twilioLog, event)

TwilioEvent(name, sid) == [event |-> name, streamSid |-> sid]

\* const greeting = currentUser ? `Hello ${fName}! ...` : "Hello! I'm Kaylee. ..."
Greeting(by) == [by |-> by, personal |-> currentUser]

\* if (!this.greetingSent)
GreetingDue == ~greetingSent

\* onMessage, event === "start", up to its `await this.tts.sendText(...)`.
OnMessageStart(sid, outcome) ==
    /\ agentVersion = "singleDO"
    /\ Len(twilioLog) < MaxTwilioEvents
    /\ twilioLog' = Logged(TwilioEvent("start", sid))
    /\ currentStreamSid' = sid
    /\ IF GreetingDue
       THEN LET init == ~tts
                tts1 == IF init THEN TtsAfterOnStart(outcome) ELSE tts
                stt1 == IF init THEN SttAfterOnStart(outcome) ELSE stt
            IN /\ tts' = tts1
               /\ stt' = stt1
               /\ replacedSessions' = SessionsReplaced(init, outcome)
               /\ IF tts1
                  THEN /\ greetings' = Append(greetings, Greeting("start"))
                       /\ awaitingGreeting' = [awaitingGreeting EXCEPT !["start"] = @ + 1]
                  ELSE UNCHANGED << greetings, awaitingGreeting >>
       ELSE UNCHANGED << tts, stt, replacedSessions, greetings, awaitingGreeting >>
    /\ UNCHANGED << agentVersion, currentCallSid, currentCallerId, currentUser,
                    twilioConnection, greetingSent, sttAudio >>
    /\ twilioOnAudio' = (twilioOnAudio \/ (GreetingDue /\ ~tts /\ Registers(outcome)))
    /\ UNCHANGED << closedSessions, lastAudio, lastDeliveries >>
    /\ UNCHANGED voiceRest
    /\ UNCHANGED outsideTwilio

\* onMessage, event === "connected", up to its `await this.tts.sendText(...)`.
OnMessageConnected(outcome) ==
    /\ agentVersion = "singleDO"
    /\ Len(twilioLog) < MaxTwilioEvents
    /\ twilioLog' = Logged(TwilioEvent("connected", NoSid))
    /\ LET init == ~tts
           tts1 == IF init THEN TtsAfterOnStart(outcome) ELSE tts
           stt1 == IF init THEN SttAfterOnStart(outcome) ELSE stt
       IN /\ tts' = tts1
          /\ stt' = stt1
          /\ replacedSessions' = SessionsReplaced(init, outcome)
          /\ IF GreetingDue /\ tts1
             THEN /\ greetings' = Append(greetings, Greeting("connected"))
                  /\ awaitingGreeting' = [awaitingGreeting EXCEPT !["connected"] = @ + 1]
             ELSE UNCHANGED << greetings, awaitingGreeting >>
    /\ UNCHANGED << agentVersion, currentStreamSid, currentCallSid, currentCallerId,
                    currentUser, twilioConnection, greetingSent, sttAudio >>
    /\ twilioOnAudio' = (twilioOnAudio \/ (~tts /\ Registers(outcome)))
    /\ UNCHANGED << closedSessions, lastAudio, lastDeliveries >>
    /\ UNCHANGED voiceRest
    /\ UNCHANGED outsideTwilio

\* The rest of the start and connected handlers, once sendText has settled:
\* `this.greetingSent = true` when it resolved; when it rejected, the handler's
\* outer catch logs the error and the flag stays as it was.
GreetingSettled(h, result) ==
    /\ agentVersion = "singleDO"
    /\ awaitingGreeting[h] > 0
    /\ awaitingGreeting' = [awaitingGreeting EXCEPT ![h] = @ - 1]
    /\ greetingSent' = IF result = "resolved" THEN TRUE ELSE greetingSent
    /\ UNCHANGED << agentVersion, currentStreamSid, currentCallSid, currentCallerId,
                    currentUser, twilioConnection, twilioLog, greetings, sttAudio >>
    /\ UNCHANGED << stt, tts, replacedSessions >>
    /\ UNCHANGED << closedSessions, twilioOnAudio, lastAudio, lastDeliveries >>
    /\ UNCHANGED voiceRest
    /\ UNCHANGED outsideTwilio

\* if (streamSid && streamSid !== this.currentStreamSid)
NewStreamDetected(sid) == sid # NoSid /\ sid # currentStreamSid

\* onMessage, event === "media" with a media object: a new stream id starts the
\* services and sends the greeting, then the payload goes to STT.
OnMessageMedia(sid, hasPayload, outcome) ==
    /\ agentVersion = "singleDO"
    /\ Len(twilioLog) < MaxTwilioEvents
    /\ twilioLog' = Logged(TwilioEvent("media", sid))
    /\ LET new == NewStreamDetected(sid)
           init == new /\ (~tts \/ ~stt)
           tts1 == IF init THEN TtsAfterOnStart(outcome) ELSE tts
           stt1 == IF init THEN SttAfterOnStart(outcome) ELSE stt
       IN /\ currentStreamSid' = IF new THEN sid ELSE currentStreamSid
          /\ tts' = tts1
          /\ stt' = stt1
          /\ replacedSessions' = SessionsReplaced(init, outcome)
          /\ greetings' = IF new /\ tts1
                          THEN Append(greetings, Greeting("media"))
                          ELSE greetings
          /\ sttAudio' = IF hasPayload /\ stt1 THEN sttAudio + 1 ELSE sttAudio
    /\ UNCHANGED << agentVersion, currentCallSid, currentCallerId, currentUser,
                    twilioConnection, greetingSent, awaitingGreeting >>
    /\ twilioOnAudio' = (twilioOnAudio \/ (NewStreamDetected(sid) /\ (~tts \/ ~stt) /\ Registers(outcome)))
    /\ UNCHANGED << closedSessions, lastAudio, lastDeliveries >>
    /\ UNCHANGED voiceRest
    /\ UNCHANGED outsideTwilio

\* handleCallEnd: the call-scoped identifiers are cleared.  Its calls of
\* this.tts.disconnect() and this.stt.disconnect() are commented out, so no
\* session is closed.
HandleCallEnd ==
    /\ currentCallSid' = FALSE
    /\ currentStreamSid' = NoSid
    /\ currentCallerId' = FALSE

\* onMessage, event === "stop" (both versions).
OnMessageStop(sid) ==
    /\ agentVersion = "legacy" => (started /\ twilioConnection)
    /\ Len(twilioLog) < MaxTwilioEvents
    /\ twilioLog' = Logged(TwilioEvent("stop", sid))
    /\ HandleCallEnd
    /\ UNCHANGED << agentVersion, currentUser, twilioConnection, greetingSent,
                    awaitingGreeting, greetings, sttAudio >>
    /\ UNCHANGED << stt, tts, replacedSessions >>
    /\ UNCHANGED << closedSessions, twilioOnAudio, lastAudio, lastDeliveries >>
    /\ UNCHANGED voiceRest
    /\ UNCHANGED outsideTwilio

TerminalStatuses == {"completed", "busy", "no-answer", "canceled"}
CallStatuses == TerminalStatuses \cup {"ringing", "in-progress"}

\* How the history names a status callback.
StatusEvent(callStatus) ==
    IF callStatus \in TerminalStatuses THEN "status:terminal" ELSE "status"

\* handleStatusWebhook (both versions): a terminal status ends the call.
HandleStatusWebhook(callStatus) ==
    /\ Len(twilioLog) < MaxTwilioEvents
    /\ twilioLog' = Logged(TwilioEvent(StatusEvent(callStatus), NoSid))
    /\ IF callStatus \in TerminalStatuses
       THEN HandleCallEnd
       ELSE UNCHANGED << currentCallSid, currentStreamSid, currentCallerId >>
    /\ UNCHANGED << agentVersion, currentUser, twilioConnection, greetingSent,
                    awaitingGreeting, greetings, sttAudio >>
    /\ UNCHANGED << stt, tts, replacedSessions >>
    /\ UNCHANGED << closedSessions, twilioOnAudio, lastAudio, lastDeliveries >>
    /\ UNCHANGED voiceRest
    /\ UNCHANGED outsideTwilio

\* handleWebhook (single-DO version): the voice webhook of an incoming call.
HandleWebhook(userFound) ==
    /\ agentVersion = "singleDO"
    /\ Len(twilioLog) < MaxTwilioEvents
    /\ twilioLog' = Logged(TwilioEvent("webhook", NoSid))
    /\ currentStreamSid' = NoSid
    /\ currentCallSid' = TRUE
    /\ currentCallerId' = TRUE
    /\ currentUser' = userFound
    /\ UNCHANGED << agentVersion, twilioConnection, greetingSent, awaitingGreeting,
                    greetings, sttAudio >>
    /\ UNCHANGED << stt, tts, replacedSessions >>
    /\ UNCHANGED << closedSessions, twilioOnAudio, lastAudio, lastDeliveries >>
    /\ UNCHANGED voiceRest
    /\ UNCHANGED outsideTwilio

\* handleVoiceWebhook (earlier version).
HandleVoiceWebhook ==
    /\ agentVersion = "legacy"
    /\ Len(twilioLog) < MaxTwilioEvents
    /\ twilioLog' = Logged(TwilioEvent("webhook", NoSid))
    /\ currentCallSid' = TRUE
    /\ currentCallerId' = TRUE
    /\ UNCHANGED << agentVersion, currentStreamSid, currentUser, twilioConnection,
                    greetingSent, awaitingGreeting, greetings, sttAudio >>
    /\ UNCHANGED << stt, tts, replacedSessions >>
    /\ UNCHANGED << closedSessions, twilioOnAudio, lastAudio, lastDeliveries >>
    /\ UNCHANGED voiceRest
    /\ UNCHANGED outsideTwilio

\* onConnect of the single-DO version: a connection the framework accepted.
OnConnect(hasCallSid) ==
    /\ agentVersion = "singleDO"
    /\ Len(twilioLog) < MaxTwilioEvents
    /\ twilioLog' = Logged(TwilioEvent("onConnect", NoSid))
    /\ twilioConnection' = TRUE
    /\ currentCallSid' = IF hasCallSid THEN TRUE ELSE currentCallSid
    /\ greetings' = IF currentStreamSid # NoSid /\ tts
                    THEN Append(greetings, [by |-> "onConnect", personal |-> FALSE])
                    ELSE greetings
    /\ UNCHANGED << agentVersion, currentStreamSid, currentCallerId, currentUser,
                    greetingSent, awaitingGreeting, sttAudio >>
    /\ UNCHANGED << stt, tts, replacedSessions >>
    /\ UNCHANGED << closedSessions, twilioOnAudio, lastAudio, lastDeliveries >>
    /\ UNCHANGED voiceRest
    /\ UNCHANGED outsideTwilio

\* onConnect of the earlier version.
LegacyOnConnect(hasCallSid) ==
    /\ agentVersion = "legacy"
    /\ started
    /\ Len(twilioLog) < MaxTwilioEvents
    /\ twilioLog' = Logged(TwilioEvent("onConnect", NoSid))
    /\ twilioConnection' = TRUE
    /\ currentCallSid' = IF hasCallSid THEN TRUE ELSE currentCallSid
    /\ UNCHANGED << agentVersion, currentStreamSid, currentCallerId, currentUser,
                    greetingSent, awaitingGreeting, greetings, sttAudio >>
    /\ UNCHANGED << stt, tts, replacedSessions >>
    /\ UNCHANGED << closedSessions, twilioOnAudio, lastAudio, lastDeliveries >>
    /\ UNCHANGED voiceRest
    /\ UNCHANGED outsideTwilio

\* onMessage, event === "start", of the earlier version: no flag is kept.  The
\* framework delivers a message of a connection after its onConnect.
LegacyOnMessageStart(sid) ==
    /\ agentVersion = "legacy"
    /\ started
    /\ twilioConnection
    /\ Len(twilioLog) < MaxTwilioEvents
    /\ twilioLog' = Logged(TwilioEvent("start", sid))
    /\ currentStreamSid' = sid
    /\ greetings' = IF tts
                    THEN Append(greetings, [by |-> "start", personal |-> FALSE])
                    ELSE greetings
    /\ UNCHANGED << agentVersion, currentCallSid, currentCallerId, currentUser,
                    twilioConnection, greetingSent, awaitingGreeting, sttAudio >>
    /\ UNCHANGED << stt, tts, replacedSessions >>
    /\ UNCHANGED << closedSessions, twilioOnAudio, lastAudio, lastDeliveries >>
    /\ UNCHANGED voiceRest
    /\ UNCHANGED outsideTwilio

\* onMessage, event === "media", of the earlier version.
LegacyOnMessageMedia(sid, hasPayload) ==
    /\ agentVersion = "legacy"
    /\ started
    /\ twilioConnection
    /\ Len(twilioLog) < MaxTwilioEvents
    /\ twilioLog' = Logged(TwilioEvent("media", sid))
    /\ sttAudio' = IF hasPayload /\ stt THEN sttAudio + 1 ELSE sttAudio
    /\ UNCHANGED << agentVersion, currentStreamSid, currentCallSid, currentCallerId,
                    currentUser, twilioConnection, greetingSent, awaitingGreeting,
                    greetings >>
    /\ UNCHANGED << stt, tts, replacedSessions >>
    /\ UNCHANGED << closedSessions, twilioOnAudio, lastAudio, lastDeliveries >>
    /\ UNCHANGED voiceRest
    /\ UNCHANGED outsideTwilio

\* The audio callback of TwilioVoiceAgent.onStart is registered: the framework
\* ran onStart, or a handler's own call of it ran to its end.
OnAudioRegistered == started \/ twilioOnAudio

\* The audio chunks the TTS adapter produces.
AudioChunks == {"chunk1", "chunk2"}

\* TwilioService.prepareOutgoingAudio: btoa of the chunk's bytes.
PrepareOutgoingAudio(chunk) == [encoding |-> "base64", of |-> chunk]

\* const mediaMessage = { event: "media", streamSid: this.currentStreamSid,
\*                        media: { ..., payload: twilioPayload } }
MediaMessage(chunk) ==
    [event |-> "media", streamSid |-> currentStreamSid,
     payload |-> PrepareOutgoingAudio(chunk)]

\* The condition under which the callback and sendAudioToTwilio write a frame:
\* `if (this.currentStreamSid)`, and in the earlier version
\* `if (this.currentStreamSid && this.twilioConnection)`.
ForwardsAudio ==
    /\ currentStreamSid # NoSid
    /\ agentVersion = "legacy" => twilioConnection

\* Where sendAudioToTwilio writes the frame: every socket of
\* this.ctx.getWebSockets(), or this.twilioConnection in the earlier version.
Recipients == IF agentVersion = "singleDO" THEN "getWebSockets" ELSE "twilioConnection"

\* The call has begun and has not ended: an event of it was handled and none of
\* them was a stop or a terminal status.
CallInProgress ==
    /\ Len(twilioLog) > 0
    /\ \A i \in 1..Len(twilioLog) : twilioLog[i].event \notin {"stop", "status:terminal"}

\* The callback VoiceAgent.onStart registers: an audio-chunk frame to
\* this.connection, if there is one.  onConnect of either version stores the
\* connection in this.twilioConnection and, through super.onConnect, in
\* this.connection.
BaseCallbackSends == IF twilioConnection THEN << "audio-chunk" >> ELSE << >>

\* The callback TwilioVoiceAgent.onStart registers: a media frame when the
\* stream is active; otherwise the earlier version falls back to the browser
\* frame and the later one does nothing.
TwilioCallbackSends ==
    IF ForwardsAudio THEN << "media" >>
    ELSE IF agentVersion = "legacy" /\ twilioConnection THEN << "audio-chunk" >>
    ELSE << >>

\* The adapter calls every registered callback with the chunk, in the order of
\* registration (onAudio adds to the Set of ElevenLabsTTS and pushes to the
\* array of InworldTTS): super.onStart() registered its callback before
\* TwilioVoiceAgent.onStart registered its own.
CallbacksSend == BaseCallbackSends \o TwilioCallbackSends

\* The callbacks registered with this.tts.onAudio, and sendAudioToTwilio: the
\* chunk is framed and written when a stream id is set, and dropped otherwise.
\* The adapter produces audio for text it was given, so after a greeting.
OnTtsAudio(chunk) ==
    /\ tts
    /\ OnAudioRegistered
    /\ Len(greetings) > 0
    /\ lastAudio' = [ AudioRecord(TRUE, currentStreamSid,
                                  IF ForwardsAudio THEN MediaMessage(chunk) ELSE NoFrame,
                                  IF ForwardsAudio THEN Recipients ELSE "none")
                      EXCEPT !.chunk = chunk, !.during = CallInProgress ]
    /\ lastDeliveries' = CallbacksSend
    /\ UNCHANGED << agentVersion, currentStreamSid, currentCallSid, currentCallerId,
                    currentUser, twilioConnection, greetingSent, awaitingGreeting,
                    twilioLog, greetings, sttAudio, closedSessions, twilioOnAudio >>
    /\ UNCHANGED << stt, tts, replacedSessions >>
    /\ UNCHANGED voiceRest
    /\ UNCHANGED outsideTwilio

\* The characters atob accepts: the base64 alphabet and the padding sign.
Base64Alphabet ==
    {"A","B","C","D","E","F","G","H","I","J","K","L","M","N","O","P","Q","R","S","T","U","V","W",
     "X","Y","Z","a","b","c","d","e","f","g","h","i","j","k","l","m","n","o","p","q","r","s","t",
     "u","v","w","x","y","z","0","1","2","3","4","5","6","7","8","9","+","/"}

\* The payload without its padding: atob drops one or two trailing "=" of a
\* string whose length is a multiple of four.
Unpadded(payload) ==
    LET n == Len(payload)
    IN IF n % 4 = 0 /\ n >= 2 /\ payload[n] = "=" /\ payload[n - 1] = "="
       THEN SubSeq(payload, 1, n - 2)
       ELSE IF n % 4 = 0 /\ n >= 1 /\ payload[n] = "="
            THEN SubSeq(payload, 1, n - 1)
            ELSE payload

\* const audioData = atob(mediaPayload) throws InvalidCharacterError: a length
\* of 1 modulo 4 after the padding is dropped, or a character outside the
\* alphabet.  processIncomingAudio logs the error and throws it again.
AtobThrows(payload) ==
    \/ Len(Unpadded(payload)) % 4 = 1
    \/ \E i \in 1..Len(Unpadded(payload)) : Unpadded(payload)[i] \notin Base64Alphabet

\* Payloads of media frames, as sequences of characters: none, two that decode,
\* and three that do not.
MediaPayloads ==
    { << >>, << "/", "w", "=", "=" >>, << "f", "3", "9", "/" >>,
      << "/", "w", "#", "=" >>, << "f" >>, << "=", "f", "3", "9" >> }

\* onMessage with a text frame that is not JSON: JSON.parse throws inside the
\* try block and the catch logs "Error parsing Twilio message".
OnMessageMalformed ==
    /\ agentVersion = "legacy" => (started /\ twilioConnection)
    /\ Len(twilioLog) < MaxTwilioEvents
    /\ twilioLog' = Logged(TwilioEvent("malformed", NoSid))
    /\ UNCHANGED << agentVersion, currentStreamSid, currentCallSid, currentCallerId,
                    currentUser, twilioConnection, greetingSent, awaitingGreeting,
                    greetings, sttAudio >>
    /\ UNCHANGED << stt, tts, replacedSessions >>
    /\ UNCHANGED << closedSessions, twilioOnAudio, lastAudio, lastDeliveries >>
    /\ UNCHANGED voiceRest
    /\ UNCHANGED outsideTwilio

\* onMessage, event === "media", with a payload atob rejects.  The handler runs
\* as for any media frame up to processIncomingAudio, which throws; the catch
\* of onMessage logs the error, and nothing reaches STT.  The earlier version
\* does nothing before it decodes.
OnMessageMediaUndecodable(sid, payload, outcome) ==
    /\ Len(payload) > 0
    /\ AtobThrows(payload)
    /\ agentVersion = "legacy" => (started /\ twilioConnection)
    /\ Len(twilioLog) < MaxTwilioEvents
    /\ twilioLog' = Logged(TwilioEvent("undecodable", sid))
    /\ LET new == agentVersion = "singleDO" /\ NewStreamDetected(sid)
           init == new /\ (~tts \/ ~stt)
           tts1 == IF init THEN TtsAfterOnStart(outcome) ELSE tts
           stt1 == IF init THEN SttAfterOnStart(outcome) ELSE stt
       IN /\ currentStreamSid' = IF new THEN sid ELSE currentStreamSid
          /\ tts' = tts1
          /\ stt' = stt1
          /\ replacedSessions' = SessionsReplaced(init, outcome)
          /\ greetings' = IF new /\ tts1
                          THEN Append(greetings, Greeting("media"))
                          ELSE greetings
          /\ twilioOnAudio' = (twilioOnAudio \/ (init /\ Registers(outcome)))
    /\ UNCHANGED << agentVersion, currentCallSid, currentCallerId, currentUser,
                    twilioConnection, greetingSent, awaitingGreeting, sttAudio >>
    /\ UNCHANGED << closedSessions, lastAudio, lastDeliveries >>
    /\ UNCHANGED voiceRest
    /\ UNCHANGED outsideTwilio
----------------------------------------------------------------------------
(* The STT adapters.  AssemblyAIStt (src/unnamed/part_006) authenticates   *)
(* with a temporary token and reconnects with exponential backoff;         *)
(* DeepgramStt (src/src/services/stt/deepgram.ts) reconnects after a fixed *)
(* second.  Both attach their handlers to the socket they create, and the  *)
(* handlers act on the adapter's fields, whichever socket fires them.      *)

SttKinds == {"assemblyai", "deepgram"}

\* private maxReconnectAttempts = 3
maxReconnectAttempts == 3

\* The readyStates of a socket that can still fire an event.
LiveStates == {"CONNECTING", "OPEN", "CLOSING"}

\* What the history keeps of a call of connect() or sendAudioChunk(): whether
\* the session was open, whether auto-reconnect was enabled, how many times
\* sendAudioChunk called connect(), and what became of the chunk.
CallRecord(op, live, reconnect, attempts, fate) ==
    [op |-> op, live |-> live, reconnect |-> reconnect, attempts |-> attempts,
     fate |-> fate]

NoCall == CallRecord("none", FALSE, FALSE, 0, "none")

\* AssemblyAIStt: private shouldReconnect = false, private reconnectAttempts = 0.
\* DeepgramStt: private shouldReconnect = true.
InitStt(kind) ==
    /\ sttKind = kind
    /\ ws = "undefined"
    /\ orphans = [s \in LiveStates |-> 0]
    /\ created = 0
    /\ shouldReconnect = (kind = "deepgram")
    /\ reconnectAttempts = 0
    /\ reconnectTimers = 0
    /\ pendingConnects = 0
    /\ tokenValid = FALSE
    /\ sttClosed = FALSE
    /\ createdAfterClose = FALSE
    /\ gaveUp = FALSE
    /\ createdAfterGiveUp = FALSE
    /\ lastCall = NoCall
    /\ lastDelay = 0

\* A variant of IsOpen that never finds the session connected.
NeverOpen == FALSE

\* this.ws && this.ws.readyState === WebSocket.OPEN
\* this.session && this.session.isConnected()
IsOpen == ws = "OPEN"

\* A variant of IsTokenValid that never finds a usable token.
TokenNeverValid == FALSE

\* isTokenValid() && this.currentToken: a token is cached and its recorded
\* expiry is more than 30 seconds away.
IsTokenValid == tokenValid

\* Room for one more socket within the bound.
CanCreate == created + pendingConnects < MaxSockets

\* this.ws = new WebSocket(wsUrl) / this.session = this.createSession(): the
\* socket the field referred to stays as it is, with its handlers.
CreateSocket ==
    /\ orphans' = IF ws \in LiveStates THEN [orphans EXCEPT ![ws] = @ + 1] ELSE orphans
    /\ ws' = "CONNECTING"
    /\ created' = created + 1

\* connect(), from its first line to its first wait.  An open socket makes it
\* return at once.  DeepgramStt creates the session without waiting, and so does
\* AssemblyAIStt with a cached token (its await resolves within the same task);
\* without one it waits for the token fetch.
ConnectCalled ==
    IF IsOpen
    THEN UNCHANGED << ws, orphans, created, pendingConnects >>
    ELSE /\ CanCreate
         /\ IF sttKind = "deepgram" \/ IsTokenValid
            THEN CreateSocket /\ UNCHANGED pendingConnects
            ELSE pendingConnects' = pendingConnects + 1 /\ UNCHANGED << ws, orphans, created >>

\* The path a connect() call takes, for the history.
ConnectPath ==
    IF IsOpen THEN "already connected"
    ELSE IF sttKind = "deepgram" THEN "session created"
    ELSE IF IsTokenValid THEN "token reused"
    ELSE "token requested"

\* What the history records of a step: a socket created while closed or given up.
RecordCreation ==
    /\ createdAfterClose' = (createdAfterClose \/ (sttClosed /\ created' > created))
    /\ createdAfterGiveUp' = (createdAfterGiveUp \/ (gaveUp /\ created' > created))

\* The owner calls connect().
SttConnect ==
    /\ ConnectCalled
    /\ sttClosed' = FALSE
    /\ gaveUp' = FALSE
    /\ UNCHANGED << sttKind, shouldReconnect, reconnectAttempts, reconnectTimers,
                    tokenValid, createdAfterClose, createdAfterGiveUp >>
    /\ lastCall' = CallRecord("connect", IsOpen, shouldReconnect, 0, ConnectPath)
    /\ UNCHANGED lastDelay
    /\ UNCHANGED outsideStt

\* AssemblyAIStt.connect() after `await this.generateTemporaryToken()`: with a
\* token it creates the socket; a failed fetch makes connect() throw.
TokenFetched(ok) ==
    /\ sttKind = "assemblyai"
    /\ pendingConnects > 0
    /\ pendingConnects' = pendingConnects - 1
    /\ IF ok
       THEN CreateSocket /\ tokenValid' = TRUE
       ELSE UNCHANGED << ws, orphans, created, tokenValid >>
    /\ RecordCreation
    /\ UNCHANGED << sttKind, shouldReconnect, reconnectAttempts, reconnectTimers,
                    sttClosed, gaveUp >>
    /\ UNCHANGED << lastCall, lastDelay >>
    /\ UNCHANGED outsideStt

\* The cached token comes within 30 seconds of its expiry.
TokenExpires ==
    /\ sttKind = "assemblyai"
    /\ tokenValid
    /\ tokenValid' = FALSE
    /\ UNCHANGED << sttKind, ws, orphans, created, shouldReconnect, reconnectAttempts,
                    reconnectTimers, pendingConnects, sttClosed, createdAfterClose,
                    gaveUp, createdAfterGiveUp >>
    /\ UNCHANGED << lastCall, lastDelay >>
    /\ UNCHANGED outsideStt

\* The sockets an event can come from: the one this.ws refers to, or an orphan
\* in the given readyState.
SocketRefs == {"current"} \cup LiveStates

StateOf(ref) == IF ref = "current" THEN ws ELSE ref

Exists(ref) == IF ref = "current" THEN ws \in LiveStates ELSE orphans[ref] > 0

\* The socket's readyState becomes `to`.
Moves(ref, to) ==
    IF ref = "current"
    THEN ws' = to /\ UNCHANGED orphans
    ELSE /\ UNCHANGED ws
         /\ orphans' = IF to \in LiveStates
                       THEN [orphans EXCEPT ![ref] = @ - 1, ![to] = @ + 1]
                       ELSE [orphans EXCEPT ![ref] = @ - 1]

\* onopen of a socket.  AssemblyAIStt resets the attempts and enables
\* auto-reconnect; DeepgramStt registers its transcript listener.  A run of
\* failed reconnects ends here.
SocketOpens(ref) ==
    /\ Exists(ref)
    /\ StateOf(ref) = "CONNECTING"
    /\ Moves(ref, "OPEN")
    /\ IF sttKind = "assemblyai"
       THEN reconnectAttempts' = 0 /\ shouldReconnect' = TRUE
       ELSE UNCHANGED << reconnectAttempts, shouldReconnect >>
    /\ UNCHANGED << sttKind, created, reconnectTimers, pendingConnects, tokenValid,
                    sttClosed, createdAfterClose, gaveUp, createdAfterGiveUp >>
    /\ lastDelay' = 0
    /\ UNCHANGED lastCall
    /\ UNCHANGED outsideStt

Min(a, b) == IF a < b THEN a ELSE b

\* A variant of BackoffDelay that grows by a second per attempt.
BackoffDelayLinear(attempts) == Min(1000 * attempts, 10000)

\* const backoffDelay = Math.min(1000 * Math.pow(2, this.reconnectAttempts - 1), 10000)
BackoffDelay(attempts) == Min(1000 * 2^(attempts - 1), 10000)

\* onclose of an AssemblyAIStt socket.
AssemblyOnClose(authError) ==
    /\ tokenValid' = IF authError THEN FALSE ELSE tokenValid
    /\ IF shouldReconnect /\ reconnectAttempts < maxReconnectAttempts
       THEN /\ reconnectAttempts' = reconnectAttempts + 1
            /\ reconnectTimers' = reconnectTimers + 1
            /\ lastDelay' = BackoffDelay(reconnectAttempts + 1)
            /\ UNCHANGED << shouldReconnect, gaveUp >>
       ELSE IF reconnectAttempts >= maxReconnectAttempts
            THEN /\ shouldReconnect' = FALSE
                 /\ gaveUp' = TRUE
                 /\ UNCHANGED << reconnectAttempts, reconnectTimers, lastDelay >>
            ELSE UNCHANGED << reconnectAttempts, reconnectTimers, shouldReconnect, gaveUp,
                              lastDelay >>

\* The Close listener of a DeepgramStt session.
DeepgramOnClose ==
    /\ reconnectTimers' = IF shouldReconnect THEN reconnectTimers + 1 ELSE reconnectTimers
    /\ lastDelay' = IF shouldReconnect THEN 1000 ELSE lastDelay
    /\ UNCHANGED << tokenValid, reconnectAttempts, shouldReconnect, gaveUp >>

\* A socket closes: the connection failed, the server or the network ended it,
\* or the closing handshake the adapter asked for has finished.
SocketCloses(ref, authError) ==
    /\ Exists(ref)
    /\ Moves(ref, "CLOSED")
    /\ IF sttKind = "assemblyai" THEN AssemblyOnClose(authError) ELSE DeepgramOnClose
    /\ UNCHANGED << sttKind, created, pendingConnects, sttClosed, createdAfterClose,
                    createdAfterGiveUp >>
    /\ UNCHANGED lastCall
    /\ UNCHANGED outsideStt

\* The callback given to setTimeout by the close handler: this.connect().
ReconnectTimerFires ==
    /\ reconnectTimers > 0
    /\ reconnectTimers' = reconnectTimers - 1
    /\ ConnectCalled
    /\ RecordCreation
    /\ UNCHANGED << sttKind, shouldReconnect, reconnectAttempts, tokenValid,
                    sttClosed, gaveUp >>
    /\ UNCHANGED << lastCall, lastDelay >>
    /\ UNCHANGED outsideStt

\* What ListenLiveClient.send(chunk) of the Deepgram SDK does with data given to
\* a session that has not opened yet.  The SDK is not part of the repository:
\* it either queues the data until the session opens or does not send it.
SdkSendFates == {"buffered", "dropped"}

\* sendAudioChunk(chunk): sent on an open socket.  Otherwise, with auto-reconnect
\* enabled, connect() is called once; AssemblyAIStt then returns (its socket is
\* still connecting when connect() resolves, so the retry is not taken), while
\* DeepgramStt goes on to this.session?.send(chunk) on the new session.  With
\* auto-reconnect disabled both return.
SendAudioChunk(sdkFate) ==
    /\ IF IsOpen
       THEN /\ UNCHANGED << ws, orphans, created, pendingConnects >>
            /\ lastCall' = CallRecord("sendAudioChunk", TRUE, shouldReconnect, 0, "sent")
       ELSE IF shouldReconnect
            THEN /\ ConnectCalled
                 /\ lastCall' = CallRecord("sendAudioChunk", FALSE, TRUE, 1,
                                     IF sttKind = "deepgram" THEN sdkFate ELSE "dropped")
            ELSE /\ UNCHANGED << ws, orphans, created, pendingConnects >>
                 /\ lastCall' = CallRecord("sendAudioChunk", FALSE, FALSE, 0, "dropped")
    /\ RecordCreation
    /\ UNCHANGED << sttKind, shouldReconnect, reconnectAttempts, reconnectTimers,
                    tokenValid, sttClosed, gaveUp >>
    /\ UNCHANGED lastDelay
    /\ UNCHANGED outsideStt

\* close(): auto-reconnect is disabled and an open socket is asked to close.
SttClose ==
    /\ shouldReconnect' = FALSE
    /\ ws' = IF IsOpen THEN "CLOSING" ELSE ws
    /\ sttClosed' = TRUE
    /\ UNCHANGED << sttKind, orphans, created, reconnectAttempts, reconnectTimers,
                    pendingConnects, tokenValid, createdAfterClose, gaveUp,
                    createdAfterGiveUp >>
    /\ UNCHANGED << lastCall, lastDelay >>
    /\ UNCHANGED outsideStt

----------------------------------------------------------------------------
(* The TTS adapters.  InworldTTS (src/src/services/tts/inworld-tts.ts)     *)
(* posts one request per sendText; ElevenLabsTTS                           *)
(* (src/src/services/tts/elevenlabs.ts) keeps a WebSocket with a heartbeat *)
(* and reconnects after a fixed delay.                                     *)

TtsKinds == {"inworld", "elevenlabs"}

\* ElevenLabsTTS: ws = null, isConnected = false, shouldReconnect = true,
\* heartbeatInterval = null, audioCallbacks = new Set().
\* InworldTTS: callbacks = [].
InitTts(kind) ==
    /\ ttsKind = kind
    /\ ttsWs = "null"
    /\ ttsOrphans = [s \in LiveStates |-> 0]
    /\ ttsCreated = 0
    /\ isConnected = FALSE
    /\ ttsShouldReconnect = (kind = "elevenlabs")
    /\ ttsTimers = 0
    /\ heartbeatInterval = FALSE
    /\ intervals = 0
    /\ audioCallbacks = FALSE
    /\ waitingSends = <<>>
    /\ sendLog = <<>>
    /\ providerLog = <<>>
    /\ audioFor = {}
    /\ ttsClosed = FALSE
    /\ ttsCreatedAfterClose = FALSE
    /\ wire = <<>>
    /\ sentOrder = <<>>
    /\ audioOrder = <<>>
    /\ unsettledConnects = 0

TtsTexts == {sEmpty, sSpace, sDot, sHi}

\* A message on the wire, or a request: who sent it and what it says.
ProviderMessage(src, text, flush) == [src |-> src, text |-> text, flush |-> flush]

\* this.ws.send(data), by the standard WebSocket: delivered on an open socket,
\* an InvalidStateError while connecting, discarded once closing or closed.
WsSendResult == CASE ttsWs = "OPEN" -> "sent"
                  [] ttsWs = "CONNECTING" -> "threw"
                  [] OTHER -> "discarded"

Delivered(log, message) == IF ttsWs = "OPEN" THEN Append(log, message) ELSE log

\* The history of the socket this.ws refers to once a message of the given kind
\* was delivered on it; it keeps the socket's first MaxWire messages.
Sent(kind) == IF Len(wire) < MaxWire THEN Append(wire, kind) ELSE wire

\* ElevenLabsTTS.connect(): this.ws = new WebSocket(url), unless isConnected.
ElevenConnectCalled ==
    IF isConnected
    THEN UNCHANGED << ttsWs, ttsOrphans, ttsCreated, wire >>
    ELSE /\ ttsCreated < MaxTtsSockets
         /\ wire' = <<>>
         /\ ttsOrphans' = IF ttsWs \in LiveStates
                          THEN [ttsOrphans EXCEPT ![ttsWs] = @ + 1]
                          ELSE ttsOrphans
         /\ ttsWs' = "CONNECTING"
         /\ ttsCreated' = ttsCreated + 1

\* The owner calls connect(): InworldTTS keeps no connection.
TtsConnect ==
    /\ IF ttsKind = "elevenlabs"
       THEN ElevenConnectCalled
       ELSE UNCHANGED << ttsWs, ttsOrphans, ttsCreated, wire >>
    /\ UNCHANGED << ttsKind, isConnected, ttsShouldReconnect, ttsTimers,
                    heartbeatInterval, intervals, audioCallbacks, waitingSends,
                    sendLog, providerLog, audioFor >>
    /\ ttsClosed' = FALSE
    /\ UNCHANGED ttsCreatedAfterClose
    /\ UNCHANGED sentOrder
    /\ UNCHANGED unsettledConnects
    /\ UNCHANGED audioOrder
    /\ UNCHANGED outsideTts

\* onAudio(cb): the owner registers its callback.
OnAudio ==
    /\ ~audioCallbacks
    /\ audioCallbacks' = TRUE
    /\ UNCHANGED << ttsKind, ttsWs, ttsOrphans, ttsCreated, isConnected,
                    ttsShouldReconnect, ttsTimers, heartbeatInterval, intervals,
                    waitingSends, sendLog, providerLog, audioFor >>
    /\ UNCHANGED << ttsClosed, ttsCreatedAfterClose >>
    /\ UNCHANGED wire
    /\ UNCHANGED sentOrder
    /\ UNCHANGED unsettledConnects
    /\ UNCHANGED audioOrder
    /\ UNCHANGED outsideTts

TtsExists(ref) == IF ref = "current" THEN ttsWs \in LiveStates ELSE ttsOrphans[ref] > 0

TtsStateOf(ref) == IF ref = "current" THEN ttsWs ELSE ref

\* The readyState of this.ws once socket `ref` has moved to `to`.
TtsWsAfter(ref, to) == IF ref = "current" THEN to ELSE ttsWs

TtsOrphansAfter(ref, to) ==
    IF ref = "current"
    THEN ttsOrphans
    ELSE IF to \in LiveStates
         THEN [ttsOrphans EXCEPT ![ref] = @ - 1, ![to] = @ + 1]
         ELSE [ttsOrphans EXCEPT ![ref] = @ - 1]

\* A variant of StartHeartbeat that sets no interval.
StartHeartbeatSkipped == UNCHANGED << heartbeatInterval, intervals >>

\* startHeartbeat(): this.heartbeatInterval = setInterval(..., 15000); an interval
\* the field held before stays set.
StartHeartbeat == heartbeatInterval' = TRUE /\ intervals' = intervals + 1

\* A variant of OnOpenSends in which onopen sends nothing.
OnOpenSendsNothing == wire

\* What ws.onopen sends on the socket this.ws refers to, when that socket is
\* open: this.ws?.send(JSON.stringify(initialMessage)).
OnOpenSends == Sent("handshake")

\* ws.onopen of an ElevenLabsTTS socket: isConnected = true, the initial message
\* goes to this.ws (whichever socket that is by now), then startHeartbeat() and
\* resolve().  A send that throws ends the handler before the heartbeat starts.
TtsSocketOpens(ref) ==
    /\ ttsKind = "elevenlabs"
    /\ TtsExists(ref)
    /\ TtsStateOf(ref) = "CONNECTING"
    /\ LET cur == TtsWsAfter(ref, "OPEN")
       IN /\ ttsWs' = cur
          /\ ttsOrphans' = TtsOrphansAfter(ref, "OPEN")
          /\ isConnected' = TRUE
          /\ providerLog' = IF cur = "OPEN" /\ Len(providerLog) < MaxMessages
                            THEN Append(providerLog, ProviderMessage("onopen", sSpace, FALSE))
                            ELSE providerLog
          /\ wire' = IF cur = "OPEN" THEN OnOpenSends ELSE wire
          /\ IF cur = "CONNECTING"
             THEN UNCHANGED << heartbeatInterval, intervals >>
             ELSE StartHeartbeat
    /\ UNCHANGED << ttsKind, ttsCreated, ttsShouldReconnect, ttsTimers, audioCallbacks,
                    waitingSends, sendLog, audioFor >>
    /\ UNCHANGED << ttsClosed, ttsCreatedAfterClose >>
    /\ UNCHANGED sentOrder
    /\ UNCHANGED unsettledConnects
    /\ UNCHANGED audioOrder
    /\ UNCHANGED outsideTts

\* connect() returns `new Promise((resolve, reject) => ...)`: resolve() is called
\* by the onopen handler of the socket the call created, reject() only when the
\* WebSocket constructor throws.  Neither onerror nor onclose settles it, so the
\* promise of a socket that goes away while connecting stays pending.
AbandonedBy(readyState) ==
    IF readyState = "CONNECTING" THEN unsettledConnects + 1 ELSE unsettledConnects

\* ws.onclose of an ElevenLabsTTS socket: isConnected = false, stopHeartbeat(),
\* and reconnect() when allowed.  A socket that fails fires its error event
\* first, and ws.onerror calls reconnect() as well.
TtsSocketCloses(ref, failed) ==
    /\ ttsKind = "elevenlabs"
    /\ TtsExists(ref)
    /\ ttsWs' = TtsWsAfter(ref, "CLOSED")
    /\ ttsOrphans' = TtsOrphansAfter(ref, "CLOSED")
    /\ isConnected' = FALSE
    /\ heartbeatInterval' = FALSE
    /\ intervals' = IF heartbeatInterval THEN intervals - 1 ELSE intervals
    /\ ttsTimers' = IF ttsShouldReconnect
                    THEN ttsTimers + (IF failed THEN 2 ELSE 1)
                    ELSE ttsTimers
    /\ UNCHANGED << ttsKind, ttsCreated, ttsShouldReconnect, audioCallbacks,
                    waitingSends, sendLog, providerLog, audioFor >>
    /\ UNCHANGED << ttsClosed, ttsCreatedAfterClose >>
    /\ UNCHANGED wire
    /\ unsettledConnects' = AbandonedBy(TtsStateOf(ref))
    /\ UNCHANGED sentOrder
    /\ UNCHANGED audioOrder
    /\ UNCHANGED outsideTts

\* The callback reconnect() gave to setTimeout.
TtsTimerFires ==
    /\ ttsTimers > 0
    /\ ttsTimers' = ttsTimers - 1
    /\ IF ~isConnected /\ ttsShouldReconnect
       THEN ElevenConnectCalled
       ELSE UNCHANGED << ttsWs, ttsOrphans, ttsCreated, wire >>
    /\ UNCHANGED << ttsKind, isConnected, ttsShouldReconnect, heartbeatInterval,
                    intervals, audioCallbacks, waitingSends, sendLog, providerLog,
                    audioFor >>
    /\ ttsCreatedAfterClose' = (ttsCreatedAfterClose \/ (ttsClosed /\ ttsCreated' > ttsCreated))
    /\ UNCHANGED ttsClosed
    /\ UNCHANGED sentOrder
    /\ UNCHANGED unsettledConnects
    /\ UNCHANGED audioOrder
    /\ UNCHANGED outsideTts

\* The callback startHeartbeat() gave to setInterval: { text: " " } to this.ws.
HeartbeatTick ==
    /\ intervals > 0
    /\ ttsWs = "OPEN" /\ isConnected
    /\ Len(providerLog) < MaxMessages
    /\ providerLog' = Append(providerLog, ProviderMessage("heartbeat", sSpace, FALSE))
    /\ wire' = Sent("heartbeat")
    /\ UNCHANGED << ttsKind, ttsWs, ttsOrphans, ttsCreated, isConnected,
                    ttsShouldReconnect, ttsTimers, heartbeatInterval, intervals,
                    audioCallbacks, waitingSends, sendLog, audioFor >>
    /\ UNCHANGED << ttsClosed, ttsCreatedAfterClose >>
    /\ UNCHANGED sentOrder
    /\ UNCHANGED unsettledConnects
    /\ UNCHANGED audioOrder
    /\ UNCHANGED outsideTts

\* InworldTTS.sendText: if (!text.trim() || text.trim().length === 1) return;
\* ElevenLabsTTS.sendText has no such test.
SkipsText(text) ==
    ttsKind = "inworld" /\ (Trim(text) = <<>> \/ Len(Trim(text)) = 1)

\* ElevenLabsTTS.sendText from `if (!this.isConnected || !this.ws)` on: it throws
\* without a connection, else the text goes to this.ws with the flush flag.
ElevenSend(text, flush) ==
    IF ~isConnected \/ ttsWs = "null"
    THEN /\ sendLog' = Append(sendLog, "not connected")
         /\ UNCHANGED << providerLog, wire >>
    ELSE /\ ttsWs = "OPEN" => Len(providerLog) < MaxMessages
         /\ sendLog' = Append(sendLog, WsSendResult)
         /\ providerLog' = Delivered(providerLog, ProviderMessage("sendText", text, flush))
         /\ wire' = IF ttsWs = "OPEN" THEN Sent("text") ELSE wire

\* InworldTTS.sendText: texts of at most one visible character are skipped, any
\* other is posted to the synthesize endpoint.  When the request fails (fetch
\* rejects, or the response is not ok) the error is logged and sendText returns;
\* providerLog keeps the requests the provider accepted.
InworldSend(text, flush, accepted) ==
    IF SkipsText(text)
    THEN /\ sendLog' = Append(sendLog, "skipped")
         /\ UNCHANGED providerLog
    ELSE IF accepted
         THEN /\ Len(providerLog) < MaxMessages
              /\ sendLog' = Append(sendLog, "requested")
              /\ providerLog' = Append(providerLog, ProviderMessage("sendText", text, flush))
         ELSE /\ sendLog' = Append(sendLog, "request failed")
              /\ UNCHANGED providerLog

\* How the promise of a sendText call settles, by how the call went: the
\* `throw new Error("WebSocket not connected")` and an exception of ws.send
\* reject it; every other path returns.
Settles(outcome) ==
    IF outcome \in {"not connected", "threw"} THEN "rejected" ELSE "resolved"

\* The number of the next sendText call: one more than the calls made so far,
\* settled or still polling.
NextCallNumber == Len(sendLog) + Len(waitingSends) + 1

\* this.ws.send(...) of sendText hands the text to the provider: there is a
\* connection and its socket is open.
TextGoesOut == isConnected /\ ttsWs = "OPEN"

\* The order of the texts on the wire once call n has reached its ws.send.
SentAfter(n) == IF TextGoesOut THEN Append(sentOrder, n) ELSE sentOrder

\* sendText(text, flush), from its first line to its first wait or its return.
\* ElevenLabsTTS with a socket that is not yet connected polls isConnected every
\* 100 ms for up to three seconds first.
SendTextCalled(text, flush) ==
    /\ IF ttsKind = "inworld"
       THEN (\E accepted \in BOOLEAN : InworldSend(text, flush, accepted))
            /\ UNCHANGED << waitingSends, wire, sentOrder >>
       ELSE IF ~isConnected /\ ttsWs # "null"
            THEN /\ waitingSends' = Append(waitingSends,
                                          [text |-> text, flush |-> flush, n |-> NextCallNumber])
                 /\ UNCHANGED << sendLog, providerLog, wire, sentOrder >>
            ELSE /\ ElevenSend(text, flush)
                 /\ sentOrder' = SentAfter(NextCallNumber)
                 /\ UNCHANGED waitingSends
    /\ UNCHANGED << ttsKind, ttsWs, ttsOrphans, ttsCreated, isConnected,
                    ttsShouldReconnect, ttsTimers, heartbeatInterval, intervals,
                    audioCallbacks, audioFor >>
    /\ UNCHANGED << ttsClosed, ttsCreatedAfterClose >>
    /\ UNCHANGED unsettledConnects
    /\ UNCHANGED audioOrder
    /\ UNCHANGED outsideTts

\* The owner calls sendText(text, flush).
TtsSendText(text, flush) ==
    /\ Len(sendLog) + Len(waitingSends) < MaxSends
    /\ SendTextCalled(text, flush)

\* VoiceAgent.onNewGeneratedChunk hands a sentence of the running generation to
\* the adapter: this.tts?.sendText(this.textBuffer.trim(), true), not awaited.
FlushSentence(text) ==
    /\ Len(sendLog) + Len(waitingSends) < MaxFlushes
    /\ SendTextCalled(text, TRUE)

Without(seq, k) == [i \in 1..(Len(seq) - 1) |-> IF i < k THEN seq[i] ELSE seq[i + 1]]

\* A polling sendText leaves its loop: the connection came up, or its three
\* seconds are over.
TtsWaitEnds(k) ==
    /\ ttsKind = "elevenlabs"
    /\ k \in 1..Len(waitingSends)
    /\ waitingSends' = Without(waitingSends, k)
    /\ ElevenSend(waitingSends[k].text, waitingSends[k].flush)
    /\ sentOrder' = SentAfter(waitingSends[k].n)
    /\ UNCHANGED << ttsKind, ttsWs, ttsOrphans, ttsCreated, isConnected,
                    ttsShouldReconnect, ttsTimers, heartbeatInterval, intervals,
                    audioCallbacks, audioFor >>
    /\ UNCHANGED << ttsClosed, ttsCreatedAfterClose >>
    /\ UNCHANGED unsettledConnects
    /\ UNCHANGED audioOrder
    /\ UNCHANGED outsideTts

\* close().  ElevenLabsTTS: no more reconnects, the socket is closed and
\* forgotten, the heartbeat stopped.  InworldTTS: the callbacks are dropped.
TtsClose ==
    /\ IF ttsKind = "elevenlabs"
       THEN /\ ttsShouldReconnect' = FALSE
            /\ ttsWs' = "null"
            /\ ttsOrphans' = IF ttsWs \in LiveStates
                             THEN [ttsOrphans EXCEPT !["CLOSING"] = @ + 1]
                             ELSE ttsOrphans
            /\ isConnected' = IF ttsWs = "null" THEN isConnected ELSE FALSE
            /\ heartbeatInterval' = FALSE
            /\ intervals' = IF heartbeatInterval THEN intervals - 1 ELSE intervals
            /\ wire' = <<>>
            /\ unsettledConnects' = AbandonedBy(ttsWs)
            /\ UNCHANGED audioCallbacks
       ELSE /\ audioCallbacks' = FALSE
            /\ UNCHANGED << ttsShouldReconnect, ttsWs, ttsOrphans, isConnected,
                            heartbeatInterval, intervals, wire, unsettledConnects >>
    /\ UNCHANGED << ttsKind, ttsCreated, ttsTimers, waitingSends, sendLog,
                    providerLog, audioFor >>
    /\ ttsClosed' = TRUE
    /\ UNCHANGED ttsCreatedAfterClose
    /\ UNCHANGED sentOrder
    /\ UNCHANGED audioOrder
    /\ UNCHANGED outsideTts

\* The provider answers entry k of providerLog with audio: a message on the
\* open socket (ws.onmessage) or the response to the request.  The audio is
\* handed to the registered callback.
ProviderAnswers(k) ==
    /\ k \in 1..Len(providerLog)
    /\ ttsKind = "elevenlabs" => ttsWs = "OPEN"
    /\ audioCallbacks
    /\ audioFor' = audioFor \cup {k}
    /\ audioOrder' = IF k \in audioFor THEN audioOrder ELSE Append(audioOrder, k)
    /\ UNCHANGED << ttsKind, ttsWs, ttsOrphans, ttsCreated, isConnected,
                    ttsShouldReconnect, ttsTimers, heartbeatInterval, intervals,
                    audioCallbacks, waitingSends, sendLog, providerLog >>
    /\ UNCHANGED << ttsClosed, ttsCreatedAfterClose >>
    /\ UNCHANGED wire
    /\ UNCHANGED sentOrder
    /\ UNCHANGED unsettledConnects
    /\ UNCHANGED outsideTts

\* ElevenLabsTTS.halt(): with a connection, an interrupt message goes to this.ws.
TtsHalt ==
    /\ ttsKind = "elevenlabs"
    /\ isConnected /\ ttsWs # "null"
    /\ ttsWs = "OPEN" => Len(providerLog) < MaxMessages
    /\ providerLog' = Delivered(providerLog, ProviderMessage("halt", sEmpty, FALSE))
    /\ wire' = IF ttsWs = "OPEN" THEN Sent("halt") ELSE wire
    /\ UNCHANGED << ttsKind, ttsWs, ttsOrphans, ttsCreated, isConnected,
                    ttsShouldReconnect, ttsTimers, heartbeatInterval, intervals,
                    audioCallbacks, waitingSends, sendLog, audioFor >>
    /\ UNCHANGED << ttsClosed, ttsCreatedAfterClose >>
    /\ UNCHANGED sentOrder
    /\ UNCHANGED unsettledConnects
    /\ UNCHANGED audioOrder
    /\ UNCHANGED outsideTts

----------------------------------------------------------------------------
(* The callback lists.  Every adapter keeps the callbacks its owner        *)
(* registered and invokes them when its provider delivers a transcript     *)
(* (AssemblyAIStt, DeepgramStt) or audio (InworldTTS, ElevenLabsTTS) on a  *)
(* session that is open.                                                   *)

AdapterKinds == SttKinds \cup TtsKinds

CallbackIds == {"cbA", "cbB"}

\* No callback of the list throws.
NoCallback == "none"

\* What the provider delivers.  `data` is the transcript text or the audio
\* content; `confident` is Deepgram's is_final; `final` is Deepgram's
\* speech_final or AssemblyAI's turn_is_formatted.
ProviderEvents(kind) ==
    IF kind = "deepgram"
    THEN [data : {sEmpty, sWhat}, confident : BOOLEAN, final : BOOLEAN]
    ELSE IF kind = "assemblyai"
    THEN [data : {sEmpty, sWhat}, confident : {FALSE}, final : BOOLEAN]
    ELSE [data : {sEmpty, sHi}, confident : {FALSE}, final : {FALSE}]

AllProviderEvents == UNION {ProviderEvents(kind) : kind \in AdapterKinds}

EventRecord(seen, ev, thrower, invoked) ==
    [seen |-> seen, data |-> ev.data, confident |-> ev.confident, final |-> ev.final,
     thrower |-> thrower, registered |-> callbacks, removed |-> removed,
     invoked |-> invoked]

\* private transcriptionCallbacks = [] / callbacks = [] / audioCallbacks = new Set()
InitCallbacks(kind) ==
    /\ cbKind = kind
    /\ callbacks = <<>>
    /\ removed = {}
    /\ lastEvent = EventRecord(FALSE, [data |-> sEmpty, confident |-> FALSE, final |-> FALSE],
                               NoCallback, <<>>)

Registered == {callbacks[i] : i \in 1..Len(callbacks)}

\* onTranscription(cb) / onAudio(cb): push(cb) on an array; add(cb) on the Set
\* of ElevenLabsTTS, which keeps one entry per callback.
RegisterCallback(cb) ==
    /\ Len(callbacks) < MaxRegistered
    /\ callbacks' = IF cbKind = "elevenlabs" /\ cb \in Registered
                    THEN callbacks
                    ELSE Append(callbacks, cb)
    /\ removed' = removed \ {cb}
    /\ UNCHANGED << cbKind, lastEvent >>
    /\ UNCHANGED outsideCallbacks

\* offTranscription(cb) / offAudio(cb): filter((fn) => fn !== cb) / delete(cb)
UnregisterCallback(cb) ==
    /\ callbacks' = SelectSeq(callbacks, LAMBDA fn : fn # cb)
    /\ removed' = removed \cup {cb}
    /\ UNCHANGED << cbKind, lastEvent >>
    /\ UNCHANGED outsideCallbacks

\* The test each handler makes before it invokes the callbacks.
\* AssemblyAIStt: if (text.length > 0); DeepgramStt: if (isChunkConfident || isFinal);
\* InworldTTS: if (audioContent); ElevenLabsTTS: if (audio && audio.length > 0).
Forwards(kind, ev) ==
    IF kind = "deepgram" THEN ev.confident \/ ev.final ELSE Len(ev.data) > 0

\* The callbacks a forEach without a try block invokes when `thrower` throws:
\* those up to and including the first occurrence of `thrower`.
RECURSIVE UpToThrow(_, _)
UpToThrow(cbs, thrower) ==
    IF cbs = <<>> THEN <<>>
    ELSE IF Head(cbs) = thrower THEN << Head(cbs) >>
    ELSE << Head(cbs) >> \o UpToThrow(Tail(cbs), thrower)

\* The callbacks invoked for one event.  ElevenLabsTTS wraps each call in
\* try/catch; the other three iterate with forEach and no try block.
Invoked(kind, cbs, thrower) ==
    IF kind = "elevenlabs" THEN cbs ELSE UpToThrow(cbs, thrower)

\* The provider delivers an event on the open session; `thrower` is the
\* callback that throws when invoked, if any.
ProviderEvent(ev, thrower) ==
    /\ ev \in ProviderEvents(cbKind)
    /\ lastEvent' = EventRecord(TRUE, ev, thrower,
                        IF Forwards(cbKind, ev) THEN Invoked(cbKind, callbacks, thrower)
                        ELSE <<>>)
    /\ UNCHANGED << cbKind, callbacks, removed >>
    /\ UNCHANGED outsideCallbacks

----------------------------------------------------------------------------
(* The audio codecs.  InworldTTS.linearToMulaw                              *)
(* (src/src/services/tts/inworld-tts.ts) encodes a 16-bit PCM sample as a   *)
(* mu-law byte, TwilioService.processIncomingAudio                          *)
(* (src/src/services/twilio/twilio-service.ts) decodes mu-law bytes, and    *)
(* InworldTTS.extractMulawFromWav (src/unnamed/part_002) takes the audio    *)
(* out of a WAV container.                                                  *)

\* The values of a 16-bit signed sample.
Samples == (-32768)..32767

\* x >> n of a non-negative x.
ShiftRight(x, n) == x \div (2^n)

RECURSIVE FirstExponent(_, _)
\* for (let exp = 0; exp < 8; exp++) if (sample <= (0xFF << exp)) { exponent = exp; break; }
\* with `let exponent = 7` before the loop.
FirstExponent(value, exp) ==
    IF exp >= 8 THEN 7
    ELSE IF value <= 255 * (2^exp) THEN exp
    ELSE FirstExponent(value, exp + 1)

\* InworldTTS.linearToMulaw(sample): BIAS = 0x84, CLIP = 8159.
LinearToMulaw(s) ==
    LET sign == IF s < 0 THEN 128 ELSE 0            \* (sample >> 8) & 0x80
        magnitude == IF sign # 0 THEN -s ELSE s
        clipped == IF magnitude > 8159 THEN 8159 ELSE magnitude
        biased == clipped + 132
        exponent == FirstExponent(biased, 0)
        mantissa == ShiftRight(biased, exponent + 3) % 16
    IN  255 - (sign + exponent * 16 + mantissa)     \* ~(sign | exponent << 4 | mantissa) & 0xFF

\* The loop body of TwilioService.processIncomingAudio for one byte: BIAS = 0x84,
\* CLIP = 32635.
MulawToLinear(byte) ==
    LET ulaw == 255 - byte                          \* (~mulawByte) & 0xFF
        sign == ulaw >= 128                         \* ulaw & 0x80
        exponent == (ulaw \div 16) % 8
        mantissa == ulaw % 16
        linear == ((mantissa * 2 + 1 + 132) * (2^exponent)) - 132
        signed == IF sign THEN -linear ELSE linear
    IN  IF signed > 32635 THEN 32635
        ELSE IF signed < -32635 THEN -32635
        ELSE signed

\* Nothing has been encoded or decoded yet.
InitCodec(s) ==
    /\ sample = s
    /\ mulaw = << >>
    /\ pcmOut = << >>

\* convertLinear16ToMulaw: the sample becomes one mu-law byte.
EncodeSample ==
    /\ mulaw = << >>
    /\ mulaw' = << LinearToMulaw(sample) >>
    /\ UNCHANGED << sample, pcmOut >>
    /\ UNCHANGED wavVars
    /\ UNCHANGED outsideCodec

\* processIncomingAudio: the mu-law byte becomes one 16-bit sample.
DecodeByte ==
    /\ mulaw # << >>
    /\ pcmOut = << >>
    /\ pcmOut' = << MulawToLinear(mulaw[1]) >>
    /\ UNCHANGED << sample, mulaw >>
    /\ UNCHANGED wavVars
    /\ UNCHANGED outsideCodec

----------------------------------------------------------------------------
(* WAV containers, as sequences of bytes.                                  *)

\* "data": 0x64 0x61 0x74 0x61
DataTag == << 100, 97, 116, 97 >>

\* "RIFF"
RiffTag == << 82, 73, 70, 70 >>

\* The four size bytes of a chunk header, little-endian, for a short chunk.
SizeField(n) == << n, 0, 0, 0 >>

RECURSIVE SeqsUpTo(_, _)
\* The sequences over `alphabet` of at most n elements.
SeqsUpTo(alphabet, n) ==
    IF n = 0 THEN { << >> }
    ELSE LET shorter == SeqsUpTo(alphabet, n - 1)
         IN  shorter \cup { Append(q, b) : q \in {r \in shorter : Len(r) = n - 1}, b \in alphabet }

\* The bytes of audio data the buffers carry.
AudioBytes == {127, 255}

\* "LIST"
ListTag == << 76, 73, 83, 84 >>

\* What precedes the data chunk of a buffer: nothing, a RIFF tag, or a LIST
\* chunk whose four bytes of content spell the tag.
Preambles == { << >>, RiffTag, RiffTag \o ListTag \o SizeField(4) \o DataTag }

\* What follows the data chunk: nothing, or another chunk (LIST, empty).
Trailers == { << >>, ListTag \o SizeField(0) }

\* A buffer with a data chunk of the given bytes.
WavWith(preamble, data, trailer) ==
    preamble \o DataTag \o SizeField(Len(data)) \o data \o trailer

\* wavBytes.slice(from), with from counted from 0.
SliceFrom(bytes, from) ==
    IF from >= Len(bytes) THEN << >> ELSE SubSeq(bytes, from + 1, Len(bytes))

\* The positions i, counted from 0, that the search loop visits
\* (i < wavBytes.length - 4) and at which the tag stands.
TagPositions(bytes) ==
    { i \in 0..(Len(bytes) - 5) : SubSeq(bytes, i + 1, i + 4) = DataTag }

MinOf(S) == CHOOSE x \in S : \A y \in S : x <= y

\* InworldTTS.extractMulawFromWav(wavBytes): everything from eight bytes after
\* the first tag found, or an empty array when no tag is found.
ExtractMulawFromWav(bytes) ==
    IF TagPositions(bytes) = {} THEN << >>
    ELSE SliceFrom(bytes, MinOf(TagPositions(bytes)) + 8)

\* The buffer given to extractMulawFromWav, and the data chunk it is known to
\* carry (hasData is false for a buffer without a data tag).
InitWav(bytes, data, tagged) ==
    /\ wavBytes = bytes
    /\ wavData = data
    /\ hasData = tagged
    /\ extractDone = FALSE
    /\ extracted = << >>

\* The call extractMulawFromWav(wavBytes); it does not throw.
ExtractCalled ==
    /\ ~extractDone
    /\ extractDone' = TRUE
    /\ extracted' = ExtractMulawFromWav(wavBytes)
    /\ UNCHANGED << wavBytes, wavData, hasData >>
    /\ UNCHANGED << sample, mulaw, pcmOut >>
    /\ UNCHANGED outsideCodec

----------------------------------------------------------------------------
(* The routing of a call.  The worker (src/src/server.ts) hands the voice   *)
(* webhook to handleTwilioVoiceWebhook (src/src/routes/twilio.ts), which    *)
(* picks the TwilioVoiceAgent instance by name; every other request under   *)
(* /agents/ goes through routeAgentRequest, which takes the agent and the   *)
(* instance name from the first segments of the path.  A path is the        *)
(* sequence of its segments.  Each instance has a storage of its own.       *)

CallSids == {"CA1", "CA2", "CA3"}

\* The names an instance can have: a call id, or a room name from a path.
InstanceNames == CallSids \cup {"twilio", "default", "websocket"}

NoInstance == "none"

\* Storage keys: `user:${CallSid}` and `phone:${CallSid}`.
StorageKey(kind, callSid) == << kind, callSid >>

NoUpgrade ==
    [seen |-> FALSE, instance |-> NoInstance, callSid |-> NoInstance, userStored |-> FALSE,
     userLoaded |-> FALSE]

InitRoute ==
    /\ doStorage = [name \in InstanceNames |-> {}]
    /\ streamUrls = {}
    /\ lastUpgrade = NoUpgrade

\* env.twiliovoice.idFromName(callSid): the instance the webhook is forwarded to.
WebhookInstance(callSid) == callSid

\* doUrl.pathname = `/agents/twiliovoice/${callSid}/twilio/voice`
WebhookPath(callSid) == << "agents", "twiliovoice", callSid, "twilio", "voice" >>

\* url.pathname = `/agents/twiliovoice/twilio/${this.currentCallSid || 'default'}/websocket`
GenerateWebSocketUrlSingleDO(callSid) ==
    << "agents", "twiliovoice", "twilio", callSid, "websocket" >>

\* The URLs the webhook can hand to Twilio.
StreamUrls == { GenerateWebSocketUrlSingleDO(callSid) : callSid \in CallSids }

\* routeAgentRequest(request, env): a path /agents/<agent>/<name>/... goes to the
\* instance <name> of the agent; the segment after /agents/twiliovoice/ names
\* the instance.
AgentInstanceName(path) ==
    IF Len(path) >= 3 /\ path[1] = "agents" /\ path[2] = "twiliovoice"
    THEN path[3]
    ELSE NoInstance

\* url.pathname.split('/'): the segments after an empty first element.
PathParts(path) == << "" >> \o path

\* const callSidFromPath = pathParts.length >= 5 ? pathParts[4] : null
\* (JavaScript counts the elements from zero).
CallSidFromPath(path) ==
    IF Len(PathParts(path)) >= 5 THEN PathParts(path)[5] ELSE NoInstance

\* What handleWebhook puts into the storage of its instance: the user record
\* when the caller is known, and the caller's number.
StoredByWebhook(callSid, userFound) ==
    (IF userFound THEN {StorageKey("user", callSid)} ELSE {})
        \cup {StorageKey("phone", callSid)}

\* The voice webhook of a call: the worker forwards it to the instance named by
\* the CallSid, whose handleWebhook stores the lookup result and answers with
\* the stream URL.
VoiceWebhookArrives(callSid, userFound) ==
    /\ doStorage[WebhookInstance(callSid)] = {}
    /\ doStorage' = [doStorage EXCEPT ![WebhookInstance(callSid)] =
                                        @ \cup StoredByWebhook(callSid, userFound)]
    /\ streamUrls' = streamUrls \cup {GenerateWebSocketUrlSingleDO(callSid)}
    /\ UNCHANGED lastUpgrade
    /\ UNCHANGED outsideRoute

\* Twilio opens the media stream on a URL it was given: the worker routes the
\* upgrade by the path, and handleWebSocket of that instance looks for the user
\* record under `user:${callSidFromPath}` in its storage.
StreamOpens(url) ==
    /\ url \in streamUrls
    /\ streamUrls' = streamUrls \ {url}
    /\ LET instance == AgentInstanceName(url)
           callSid == CallSidFromPath(url)
       IN lastUpgrade' =
            [seen |-> TRUE, instance |-> instance, callSid |-> callSid,
             userStored |-> StorageKey("user", callSid) \in doStorage[WebhookInstance(callSid)],
             userLoaded |-> StorageKey("user", callSid) \in doStorage[instance]]
    /\ UNCHANGED doStorage
    /\ UNCHANGED outsideRoute
----------------------------------------------------------------------------
(* Specifications.  Each one runs one component from its constructed state *)
(* and leaves the other components as constructed.                         *)

\* The codecs before any input: a silent sample and an empty buffer.
InitIdleCodec == InitCodec(0) /\ InitWav(<< >>, << >>, FALSE)

vars == << voiceVars, twilioVars, sttVars, ttsVars, cbVars, codecVars, routeVars >>

\* The chat loop: generations and the segmenter.
NextChat ==
    \/ OnStart
    \/ OnStartSttFails
    \/ OnChatMessage
    \/ \E g \in Generations, chunk \in ChunkInputs : OnNewGeneratedChunk(g, chunk)

InitChat ==
    InitVoice /\ InitRoute /\ InitTwilio("singleDO") /\ InitStt("assemblyai") /\ InitTts("elevenlabs") /\ InitCallbacks("assemblyai") /\ InitIdleCodec

SpecChat == InitChat /\ [][NextChat]_vars

\* The voice loop: transcripts, each commit starting a generation.
NextVoice ==
    \/ OnStart
    \/ OnStartSttFails
    \/ OnStartTtsFails
    \/ \E transcript \in TranscriptInputs : HandleTranscript(transcript)
    \/ OnMessageAudio

SpecVoice == InitChat /\ [][NextVoice]_vars

\* A phone call: the webhooks and the media-stream events of either version.
NextTwilio ==
    \/ OnStart
    \/ \E sid \in StreamSids, o \in OnStartOutcomes : OnMessageStart(sid, o)
    \/ \E o \in OnStartOutcomes : OnMessageConnected(o)
    \/ \E h \in Handlers, r \in SendOutcomes : GreetingSettled(h, r)
    \/ \E sid \in StreamSids \cup {NoSid}, p \in BOOLEAN, o \in OnStartOutcomes :
          OnMessageMedia(sid, p, o)
    \/ \E sid \in StreamSids : OnMessageStop(sid)
    \/ \E status \in CallStatuses : HandleStatusWebhook(status)
    \/ \E userFound \in BOOLEAN : HandleWebhook(userFound)
    \/ HandleVoiceWebhook
    \/ \E c \in BOOLEAN : OnConnect(c)
    \/ \E c \in BOOLEAN : LegacyOnConnect(c)
    \/ \E sid \in StreamSids : LegacyOnMessageStart(sid)
    \/ \E sid \in StreamSids \cup {NoSid}, p \in BOOLEAN : LegacyOnMessageMedia(sid, p)

InitCall ==
    \E version \in AgentVersions :
        InitVoice /\ InitRoute /\ InitTwilio(version) /\ InitStt("assemblyai") /\ InitTts("elevenlabs") /\ InitCallbacks("assemblyai") /\ InitIdleCodec

SpecTwilio == InitCall /\ [][NextTwilio]_vars

\* The audio of a call: the events that set and clear the stream id and the
\* connection, and the chunks the TTS adapter hands to the agent.
NextAudio ==
    \/ OnStart
    \/ \E sid \in StreamSids, o \in OnStartOutcomes : OnMessageStart(sid, o)
    \/ \E o \in OnStartOutcomes : OnMessageConnected(o)
    \/ \E sid \in StreamSids : OnMessageStop(sid)
    \/ \E userFound \in BOOLEAN : HandleWebhook(userFound)
    \/ \E c \in BOOLEAN : OnConnect(c)
    \/ \E c \in BOOLEAN : LegacyOnConnect(c)
    \/ \E sid \in StreamSids : LegacyOnMessageStart(sid)
    \/ \E chunk \in AudioChunks : OnTtsAudio(chunk)

InitAudio ==
    \E version \in AgentVersions :
        InitVoice /\ InitRoute /\ InitTwilio(version) /\ InitStt("assemblyai") /\ InitTts("elevenlabs") /\ InitCallbacks("assemblyai") /\ InitIdleCodec

SpecAudio == InitAudio /\ [][NextAudio]_vars

\* An STT adapter of either class and what can happen to it: its owner's calls,
\* its sockets' events, its timers.
NextStt ==
    \/ SttConnect
    \/ \E ok \in BOOLEAN : TokenFetched(ok)
    \/ TokenExpires
    \/ \E ref \in SocketRefs : SocketOpens(ref)
    \/ \E ref \in SocketRefs, authError \in BOOLEAN : SocketCloses(ref, authError)
    \/ ReconnectTimerFires
    \/ \E sdkFate \in SdkSendFates : SendAudioChunk(sdkFate)
    \/ SttClose

InitAdapter ==
    \E kind \in SttKinds :
        InitVoice /\ InitRoute /\ InitTwilio("singleDO") /\ InitStt(kind) /\ InitTts("elevenlabs") /\ InitCallbacks("assemblyai") /\ InitIdleCodec

SpecStt == InitAdapter /\ [][NextStt]_vars

\* A TTS adapter of either class and what can happen to it: its owner's calls,
\* its sockets' events, its timers, the provider's answers.
NextTts ==
    \/ TtsConnect
    \/ OnAudio
    \/ \E ref \in SocketRefs : TtsSocketOpens(ref)
    \/ \E ref \in SocketRefs, failed \in BOOLEAN : TtsSocketCloses(ref, failed)
    \/ TtsTimerFires
    \/ HeartbeatTick
    \/ \E text \in TtsTexts, flush \in BOOLEAN : TtsSendText(text, flush)
    \/ \E k \in 1..MaxSends : TtsWaitEnds(k)
    \/ TtsClose
    \/ \E k \in 1..MaxMessages : ProviderAnswers(k)

InitSynth ==
    \E kind \in TtsKinds :
        InitVoice /\ InitRoute /\ InitTwilio("singleDO") /\ InitStt("assemblyai") /\ InitTts(kind) /\ InitCallbacks("assemblyai") /\ InitIdleCodec

SpecTts == InitSynth /\ [][NextTts]_vars

\* The streaming session of an ElevenLabsTTS: its sockets, its timers and what
\* its owner sends.
NextSession ==
    \/ TtsConnect
    \/ \E ref \in SocketRefs : TtsSocketOpens(ref)
    \/ \E ref \in SocketRefs, failed \in BOOLEAN : TtsSocketCloses(ref, failed)
    \/ TtsTimerFires
    \/ HeartbeatTick
    \/ TtsSendText(sHi, TRUE)
    \/ \E k \in 1..MaxSends : TtsWaitEnds(k)
    \/ TtsHalt
    \/ TtsClose

InitSession ==
    InitVoice /\ InitRoute /\ InitTwilio("singleDO") /\ InitStt("assemblyai") /\ InitTts("elevenlabs") /\ InitCallbacks("assemblyai") /\ InitIdleCodec

SpecSession == InitSession /\ [][NextSession]_vars

\* A connection attempt does not last for ever: a socket that is connecting
\* opens, or fails and closes.
SocketSettles ==
    \/ \E ref \in SocketRefs : TtsSocketOpens(ref)
    \/ \E ref \in SocketRefs, failed \in BOOLEAN : TtsSocketCloses(ref, failed)

\* The session with every connection attempt coming to an end.
SpecSessionFair == SpecSession /\ WF_vars(SocketSettles)

\* The sentences of one generation on their way to an ElevenLabsTTS: the flushes
\* of the segmenter in emission order, the session's sockets and its timers.
NextFlush ==
    \/ TtsConnect
    \/ \E ref \in SocketRefs : TtsSocketOpens(ref)
    \/ \E ref \in SocketRefs, failed \in BOOLEAN : TtsSocketCloses(ref, failed)
    \/ TtsTimerFires
    \/ \E text \in {sHi, sHelloWorld} : FlushSentence(text)
    \/ \E k \in 1..MaxFlushes : TtsWaitEnds(k)

SpecFlush == InitSession /\ [][NextFlush]_vars

\* An adapter's callback list: registrations, removals, and the provider's
\* events on an open session.
NextCallbacks ==
    \/ \E cb \in CallbackIds : RegisterCallback(cb)
    \/ \E cb \in CallbackIds : UnregisterCallback(cb)
    \/ \E ev \in AllProviderEvents, thrower \in CallbackIds \cup {NoCallback} :
          ProviderEvent(ev, thrower)

InitListeners ==
    \E kind \in AdapterKinds :
        InitVoice /\ InitRoute /\ InitTwilio("singleDO") /\ InitStt("assemblyai") /\ InitTts("elevenlabs")
            /\ InitCallbacks(kind) /\ InitIdleCodec

SpecCallbacks == InitListeners /\ [][NextCallbacks]_vars

\* The mu-law round trip of one sample, whichever it is.
NextCodec ==
    \/ EncodeSample
    \/ DecodeByte

InitRoundTrip ==
    \E s \in Samples :
        InitVoice /\ InitRoute /\ InitTwilio("singleDO") /\ InitStt("assemblyai") /\ InitTts("elevenlabs")
            /\ InitCallbacks("assemblyai") /\ InitCodec(s) /\ InitWav(<< >>, << >>, FALSE)

SpecCodec == InitRoundTrip /\ [][NextCodec]_vars

\* extractMulawFromWav on a buffer with a data chunk of at most MaxData bytes, or
\* on a buffer without one.
NextWav == ExtractCalled

InitBuffer ==
    \E preamble \in Preambles, data \in SeqsUpTo(AudioBytes, MaxData), trailer \in Trailers,
       tagged \in BOOLEAN :
        InitVoice /\ InitRoute /\ InitTwilio("singleDO") /\ InitStt("assemblyai") /\ InitTts("elevenlabs")
            /\ InitCallbacks("assemblyai") /\ InitCodec(0)
            /\ InitWav(IF tagged THEN WavWith(preamble, data, trailer)
                                  ELSE RiffTag \o data \o trailer,
                       data, tagged)

SpecWav == InitBuffer /\ [][NextWav]_vars

\* The requests of incoming calls on their way to a TwilioVoiceAgent instance:
\* the voice webhook, then the media stream Twilio opens on the URL it was given.
NextRoute ==
    \/ \E callSid \in CallSids, userFound \in BOOLEAN : VoiceWebhookArrives(callSid, userFound)
    \/ \E url \in StreamUrls : StreamOpens(url)

SpecRoute == InitCall /\ [][NextRoute]_vars

\* The text frames of a media stream, well formed or not, in either version.
NextFrames ==
    \/ OnStart
    \/ \E sid \in StreamSids, o \in OnStartOutcomes : OnMessageStart(sid, o)
    \/ \E h \in Handlers, r \in SendOutcomes : GreetingSettled(h, r)
    \/ \E sid \in StreamSids, p \in BOOLEAN, o \in OnStartOutcomes : OnMessageMedia(sid, p, o)
    \/ \E sid \in StreamSids : OnMessageStop(sid)
    \/ \E c \in BOOLEAN : LegacyOnConnect(c)
    \/ \E sid \in StreamSids : LegacyOnMessageStart(sid)
    \/ \E sid \in StreamSids, p \in BOOLEAN : LegacyOnMessageMedia(sid, p)
    \/ OnMessageMalformed
    \/ \E sid \in StreamSids, payload \in MediaPayloads, o \in OnStartOutcomes :
          OnMessageMediaUndecodable(sid, payload, o)

SpecFrames == InitCall /\ [][NextFrames]_vars

\* An InworldTTS and the sentences a generation flushes to it: each sendText
\* posts a request of its own, and the responses come back when they come.
NextInworld ==
    \/ TtsConnect
    \/ OnAudio
    \/ \E text \in {sHi, sHelloWorld} : FlushSentence(text)
    \/ \E k \in 1..MaxMessages : ProviderAnswers(k)
    \/ TtsClose

InitInworld ==
    InitVoice /\ InitRoute /\ InitTwilio("singleDO") /\ InitStt("assemblyai") /\ InitTts("inworld") /\ InitCallbacks("assemblyai") /\ InitIdleCodec

SpecInworld == InitInworld /\ [][NextInworld]_vars
----------------------------------------------------------------------------
(* What the logs say: helpers of the properties below.                     *)

\* The sendText calls made while handling chunk number i.
CallsAt(i) == {k \in 1..Len(ttsCalls) : ttsCalls[k].at = i}

\* Chunk number i is one the segmenter handles (it reads or writes textBuffer).
SegmenterChunk(i) == chunkLog[i].type \in {"text-delta", "finish"}

\* The last segmenter chunk before i on which text was sent, 0 if none.
PrevFlush(i) ==
    LET earlier == {j \in 1..(i - 1) : SegmenterChunk(j) /\ CallsAt(j) # {}}
    IN IF earlier = {} THEN 0 ELSE CHOOSE j \in earlier : \A l \in earlier : l <= j

\* The concatenation of the text deltas of chunks from..to.
RECURSIVE ConcatDeltas(_, _)
ConcatDeltas(from, to) ==
    IF from > to THEN <<>>
    ELSE chunkLog[from].textDelta \o ConcatDeltas(from + 1, to)

\* All text received since the previous flush, up to and including chunk i.
SinceFlush(i) == ConcatDeltas(PrevFlush(i) + 1, i)

EndsInFullSentenceDelimiter(text) ==
    /\ text # <<>>
    /\ text[Len(text)] \in {".", "?", "!", NL, ELLIPSIS, IDEOGRAPHIC_STOP}

Punctuation == sentence_fragment_delimiters \ WhiteSpace

\* The texts of all sendText calls, in order.
SentTexts == [k \in 1..Len(ttsCalls) |-> ttsCalls[k].text]

\* The text deltas of the whole chunk log, when it holds text deltas only.
OnlyDeltas(seq) ==
    /\ Len(chunkLog) = Len(seq)
    /\ \A i \in 1..Len(seq) :
          chunkLog[i].type = "text-delta" /\ chunkLog[i].textDelta = seq[i]

----------------------------------------------------------------------------
(* C2 (claimed; refuted by the code): once a second generation has been    *)
(* started while the first was in flight, every text the segmenter passes  *)
(* to tts.sendText is built only from text deltas of the generation that   *)
(* flushes it: no character of the aborted generation is sent.             *)
C2_OnlyNewGenerationText ==
    \A k \in 1..Len(ttsCalls) :
        LET call == ttsCalls[k] IN
        (/\ SegmenterChunk(call.at)
         /\ call.gen > 1
         /\ genStatus[call.gen - 1] = "aborted")
        => call.src \subseteq {call.gen}

(* C3: at most one LLM generation is in flight at any time, and it is the  *)
(* one the current AbortController controls; every earlier generation has  *)
(* been aborted or has finished when a new one runs.                       *)
C3_AtMostOneInFlight ==
    /\ Cardinality(InFlight) <= 1
    /\ \A g \in InFlight : g = currentAbortController
    /\ \A g \in UsedGenerations : g < currentAbortController => genStatus[g] # "running"

C3_Witness ==
    /\ genStatus[1] = "aborted"
    /\ genStatus[2] = "running"
    /\ abortSeen

(* C6: a text delta causes a sendText(text, true) exactly when its last    *)
(* character is a full-sentence delimiter; the text is the trimmed         *)
(* concatenation of the deltas since the previous flush; the buffer is     *)
(* empty afterwards; "Hello", " world", "." give one flush "Hello world."  *)
(* on the third delta.                                                     *)
C6_FlushOnSentenceEnd ==
    /\ \A i \in 1..Len(chunkLog) :
          chunkLog[i].type = "text-delta" =>
             /\ (CallsAt(i) # {}) <=> EndsInFullSentenceDelimiter(chunkLog[i].textDelta)
             /\ Cardinality(CallsAt(i)) <= 1
             /\ \A k \in CallsAt(i) :
                   /\ ttsCalls[k].text = Trim(SinceFlush(i))
                   /\ ttsCalls[k].flush = TRUE
             /\ (i = Len(chunkLog) /\ CallsAt(i) # {}) => textBuffer = <<>>
    /\ OnlyDeltas(<<sHello, sWorld>>) => ttsCalls = <<>>
    /\ OnlyDeltas(<<sHello, sWorld, sDot>>) =>
          /\ SentTexts = <<sHelloWorld>>
          /\ ttsCalls[1].at = 3

C6_Witness ==
    /\ OnlyDeltas(<<sHello, sWorld, sDot>>)
    /\ SentTexts = <<sHelloWorld>>
    /\ textBuffer = <<>>

(* C7: a text delta that does not end in a full-sentence delimiter sends   *)
(* nothing; a finish chunk sends the trimmed accumulated text once and     *)
(* clears the buffer when that text is non-empty, and sends nothing when   *)
(* the buffer is empty or whitespace only.                                 *)
C7_FinishFlushesRemainder ==
    \A i \in 1..Len(chunkLog) :
        /\ (/\ chunkLog[i].type = "text-delta"
            /\ ~EndsInFullSentenceDelimiter(chunkLog[i].textDelta))
           => CallsAt(i) = {}
        /\ chunkLog[i].type = "finish" =>
             IF Trim(SinceFlush(i)) # <<>>
             THEN /\ Cardinality(CallsAt(i)) = 1
                  /\ \A k \in CallsAt(i) :
                        /\ ttsCalls[k].text = Trim(SinceFlush(i))
                        /\ ttsCalls[k].flush = TRUE
                  /\ i = Len(chunkLog) => textBuffer = <<>>
             ELSE CallsAt(i) = {}

C7_Witness ==
    /\ Len(chunkLog) = 3
    /\ chunkLog[1].textDelta = sHello /\ chunkLog[1].type = "text-delta"
    /\ chunkLog[2].textDelta = sWorld /\ chunkLog[2].type = "text-delta"
    /\ chunkLog[3].type = "finish"
    /\ SentTexts = << sHello \o sWorld >>
    /\ ttsCalls[1].at = 3
    /\ textBuffer = <<>>

(* C8 (claimed; refuted by the code): the segmenter never passes to        *)
(* sendText a text that is empty, whitespace only, or a single punctuation *)
(* character.                                                              *)
C8_NoEmptyOrPunctuationFlush ==
    \A k \in 1..Len(ttsCalls) :
        SegmenterChunk(ttsCalls[k].at) =>
            /\ Trim(ttsCalls[k].text) # <<>>
            /\ ~(Len(ttsCalls[k].text) = 1 /\ ttsCalls[k].text[1] \in Punctuation)

----------------------------------------------------------------------------
(* C10: a final transcript arriving while fragments are accumulated        *)
(* commits exactly one user message, whose content is the fragment texts   *)
(* in arrival order joined by single spaces, and empties the accumulator;  *)
(* a non-final transcript commits nothing.                                 *)

\* The contents the transcripts of `log` must commit, `pending` being the
\* non-empty fragment texts not yet committed.
RECURSIVE ExpectedContents(_, _)
ExpectedContents(log, pending) ==
    IF log = <<>> THEN <<>>
    ELSE LET t == Head(log)
             frags == IF t.text = <<>> THEN pending ELSE pending \o <<t.text>>
         IN IF t.isFinal /\ frags # <<>>
            THEN << Join(frags, <<" ">>) >> \o ExpectedContents(Tail(log), <<>>)
            ELSE ExpectedContents(Tail(log), frags)

\* The fragments still waiting after the transcripts of `log`.
RECURSIVE ExpectedPending(_, _)
ExpectedPending(log, pending) ==
    IF log = <<>> THEN pending
    ELSE LET t == Head(log)
             frags == IF t.text = <<>> THEN pending ELSE pending \o <<t.text>>
         IN IF t.isFinal /\ frags # <<>>
            THEN ExpectedPending(Tail(log), <<>>)
            ELSE ExpectedPending(Tail(log), frags)

C10_FinalCommitsJoinedFragments ==
    /\ [k \in 1..Len(messages) |-> messages[k].content] = ExpectedContents(transcriptLog, <<>>)
    /\ \A k \in 1..Len(messages) : messages[k].role = "user"
    /\ transcriptAccumulator = ExpectedPending(transcriptLog, <<>>)
    /\ (transcriptLog # <<>> /\ transcriptLog[Len(transcriptLog)].isFinal)
          => transcriptAccumulator = <<>>

C10_Witness ==
    /\ transcriptLog = << [text |-> sWhat, isFinal |-> FALSE], [text |-> sIsUp, isFinal |-> TRUE] >>
    /\ Len(messages) = 1
    /\ messages[1].content = sWhat \o <<" ">> \o sIsUp
    /\ transcriptAccumulator = <<>>

----------------------------------------------------------------------------
(* Properties of the TwilioVoiceAgent.                                     *)

\* The events one call of Twilio's media stream delivers before it ends: the
\* voice webhook first (if at all), then connected, start and media frames that
\* all carry the call's stream id.
SingleCallEvents ==
    \A i \in 1..Len(twilioLog) :
        /\ twilioLog[i].event \in {"webhook", "connected", "start", "media"}
        /\ twilioLog[i].event = "webhook" => i = 1
        /\ twilioLog[i].event \in {"start", "media"} => twilioLog[i].streamSid = CallStream

(* C1: for any sequence of connected, start and media events of one call,  *)
(* the greeting is passed to the TTS adapter's sendText exactly once: once *)
(* every handler has returned and a greeting was due, one call was made.   *)
C1_GreetingExactlyOnce ==
    (SingleCallEvents /\ \A h \in Handlers : awaitingGreeting[h] = 0)
        => Len(greetings) <= 1


\* The latest event handled ended the call: a stop, or a status callback whose
\* status is completed, busy, no-answer or canceled.
CallEnded ==
    /\ Len(twilioLog) > 0
    /\ twilioLog[Len(twilioLog)].event \in {"stop", "status:terminal"}

\* The services the agent holds a session of.
HeldSessions == (IF stt THEN {"stt"} ELSE {}) \cup (IF tts THEN {"tts"} ELSE {})

(* C19: after a stop event or a status callback with status completed,     *)
(* busy, no-answer or canceled, the call's STT and TTS sessions have been  *)
(* closed and currentCallSid, currentStreamSid and currentCallerId are     *)
(* cleared.                                                                *)
C19_CallEndReleasesSessions ==
    CallEnded =>
        /\ HeldSessions \subseteq closedSessions
        /\ ~currentCallSid
        /\ currentStreamSid = NoSid
        /\ ~currentCallerId

(* C20: every audio chunk the TTS adapter produces during a call is        *)
(* base64-encoded, wrapped in a media frame that carries the stream id     *)
(* current at that time, and written to the call's connections; no media   *)
(* frame carries an unset stream id.                                       *)
C20_EveryChunkIsFramed ==
    /\ (lastAudio.seen /\ lastAudio.during) =>
            /\ lastAudio.frame.event = "media"
            /\ lastAudio.frame.streamSid = lastAudio.sid
            /\ lastAudio.frame.payload = [encoding |-> "base64", of |-> lastAudio.chunk]
            /\ lastAudio.to # "none"
    /\ lastAudio.frame.event = "media" => lastAudio.frame.streamSid # NoSid

\* A start or connected handler has dispatched a greeting and its
\* `await this.tts.sendText(greeting, true)` has not settled yet.
GreetingPending == \E h \in Handlers : awaitingGreeting[h] > 0

\* How many handler invocations are waiting for their greeting's sendText.
PendingGreetings == awaitingGreeting["start"] + awaitingGreeting["connected"]

(* C28: the greeting flag is set at the instant the greeting is dispatched: *)
(* while a handler's sendText of the greeting is pending, greetingSent is   *)
(* already true, so no handler that runs meanwhile (a start arriving while  *)
(* the connected handler awaits) dispatches a second greeting.              *)
C28_FlagSetAtDispatch ==
    /\ GreetingPending => greetingSent
    /\ PendingGreetings <= 1

\* The connected and start events of one call were delivered, in either order
\* (after the voice webhook, if there was one), and nothing else.
ConnectedAndStartOnly ==
    /\ agentVersion = "singleDO"
    /\ \A i \in 1..Len(twilioLog) :
        /\ twilioLog[i].event \in {"webhook", "connected", "start"}
        /\ twilioLog[i].event = "webhook" => i = 1
        /\ twilioLog[i].event = "start" => twilioLog[i].streamSid = CallStream

(* C29: for either delivery order of the connected and start events, the   *)
(* audio of the greeting is forwarded to Twilio as a media frame; it is     *)
(* never dropped because the stream id was unset when it arrived.           *)
C29_GreetingAudioForwarded ==
    (ConnectedAndStartOnly /\ lastAudio.seen) =>
        /\ lastAudio.sid # NoSid
        /\ lastAudio.frame.event = "media"

\* The sessions the agent holds or has held without closing them, per service:
\* the one its field refers to, and one more when onStart replaced an earlier.
LiveSessions(service) ==
    (IF service \in HeldSessions THEN 1 ELSE 0)
        + (IF service \in replacedSessions \ closedSessions THEN 1 ELSE 0)

(* C30: the agent owns at most one live STT session and one live TTS        *)
(* session: whenever onStart runs again, from the framework or from the     *)
(* connected, start or media handler, the sessions created before are       *)
(* closed, so none of them is left with its callbacks registered.           *)
C30_OneSessionPerService ==
    \A service \in {"stt", "tts"} : LiveSessions(service) <= 1

(* C33: the voice webhook and the media WebSocket of a call are handled by  *)
(* the same instance, keyed by the call id: the instance the upgrade is     *)
(* routed to is the one the webhook of that CallSid went to, so the user    *)
(* record the webhook stored under `user:<CallSid>` is read in the          *)
(* WebSocket phase.                                                         *)
C33_SameInstanceForBothPhases ==
    lastUpgrade.seen =>
        /\ lastUpgrade.instance = WebhookInstance(lastUpgrade.callSid)
        /\ lastUpgrade.userStored => lastUpgrade.userLoaded

\* The state of the call the handlers keep: the stream id, the call id, the
\* greeting flag and the STT and TTS sessions.
CallState == << currentStreamSid, currentCallSid, greetingSent, stt, tts >>

\* The step handled a text frame that is not JSON or a media frame whose
\* payload is not base64.
BadFrameHandled ==
    /\ Len(twilioLog') = Len(twilioLog) + 1
    /\ twilioLog'[Len(twilioLog')].event \in {"malformed", "undecodable"}

(* C34: a text frame that is not valid JSON, or a media frame whose payload *)
(* is not valid base64, is dropped: the handler returns without an          *)
(* exception and the call state (stream id, call id, greeting flag, STT and *)
(* TTS sessions) is as it was before the frame.                             *)
C34_BadFrameLeavesCallState == [][BadFrameHandled => UNCHANGED CallState]_vars

(* C35: each synthesised audio chunk is delivered to exactly one transport: *)
(* as a Twilio media frame when the stream is active, else as a browser     *)
(* audio-chunk frame; the callback TwilioVoiceAgent.onStart registers       *)
(* replaces the one VoiceAgent.onStart registered, so no chunk is sent      *)
(* twice.                                                                   *)
C35_OneTransportPerChunk ==
    lastAudio.seen =>
        /\ Len(lastDeliveries) <= 1
        /\ lastAudio.frame.event = "media" => lastDeliveries = << "media" >>
----------------------------------------------------------------------------
(* Properties of the STT adapters.                                         *)

(* C4: once close() has been called on an STT adapter, no later event (a   *)
(* reconnect timer, a late open or close of a socket, sendAudioChunk)      *)
(* creates a new connection or enables auto-reconnect again.               *)
C4_ClosedStaysClosed ==
    sttClosed => (~shouldReconnect /\ ~createdAfterClose)

(* C5: once AssemblyAIStt has given up after maxReconnectAttempts failed   *)
(* reconnects, no further connection is attempted.                         *)
C5_NoAttemptAfterGiveUp ==
    (sttKind = "assemblyai" /\ gaveUp) => ~createdAfterGiveUp


(* C14 (claimed; refuted by the code): a sendAudioChunk call that finds no *)
(* live session makes exactly one reconnect attempt when auto-reconnect is *)
(* enabled and none when it is disabled, and in both cases the chunk is    *)
(* dropped: it is neither buffered nor sent again.                         *)
C14_OneReconnectChunkDropped ==
    (lastCall.op = "sendAudioChunk" /\ ~lastCall.live) =>
        /\ lastCall.attempts = (IF lastCall.reconnect THEN 1 ELSE 0)
        /\ lastCall.fate = "dropped"

\* The fields of the adapter, without the history kept of it.
AdapterFields == << sttKind, ws, orphans, created, shouldReconnect, reconnectAttempts,
                   reconnectTimers, pendingConnects, tokenValid >>

(* C15: connect() on an adapter whose session is connected is a no-op: no  *)
(* socket or session is created (so no handlers are attached), no token is *)
(* requested, and no field of the adapter changes.                         *)
C15_ConnectWhenConnectedIsNoOp ==
    [][(ws = "OPEN" /\ SttConnect) => UNCHANGED AdapterFields]_vars

\* connect() has just been called on a connected session of each adapter.
C15_Witness ==
    /\ lastCall.op = "connect"
    /\ lastCall.fate = "already connected"
    /\ ws = "OPEN"
    /\ created = 1
    /\ pendingConnects = 0

(* C18: AssemblyAIStt requests a temporary token only when no token is     *)
(* cached or the cached one is within 30 seconds of its expiry; while the  *)
(* cached token is valid, connection attempts reuse it and request none.   *)
C18_TokenRequestedOnlyWhenNotCached ==
    [][pendingConnects' > pendingConnects => ~tokenValid]_vars

\* connect() has just created a second socket with the token cached for the
\* first, without a request.
C18_Witness ==
    /\ sttKind = "assemblyai"
    /\ lastCall.op = "connect"
    /\ lastCall.fate = "token reused"
    /\ tokenValid
    /\ created = 2
    /\ pendingConnects = 0
    /\ ws = "CONNECTING"

\* This step set a reconnect timer.
TimerSet == reconnectTimers' > reconnectTimers

(* C25: within a run of consecutive failed reconnects the delay of an STT  *)
(* adapter never decreases: AssemblyAIStt waits 1000, 2000 and 4000 ms     *)
(* (never more than 10000 ms) for attempts 1, 2 and 3, and DeepgramStt     *)
(* always waits 1000 ms.                                                   *)
C25_BackoffNonDecreasing ==
    [][ TimerSet =>
            /\ lastDelay' >= lastDelay
            /\ lastDelay' <= 10000
            /\ sttKind = "assemblyai" =>
                   /\ reconnectAttempts' \in 1..3
                   /\ lastDelay' = << 1000, 2000, 4000 >>[reconnectAttempts']
            /\ sttKind = "deepgram" => lastDelay' = 1000 ]_vars

\* AssemblyAIStt has set the timer of its third attempt in a row.
C25_Witness ==
    /\ sttKind = "assemblyai"
    /\ reconnectAttempts = 3
    /\ lastDelay = 4000
    /\ reconnectTimers > 0

\* The provider connections of the adapter that are open or opening: the socket
\* its field refers to and the sockets it no longer refers to.
SttConnectionsUp ==
    (IF ws \in {"CONNECTING", "OPEN"} THEN 1 ELSE 0) + orphans["CONNECTING"] + orphans["OPEN"]

(* C36: an STT adapter never has more than one connection to its provider   *)
(* open or opening at the same time: connect(), sendAudioChunk and the      *)
(* reconnect timers create a socket only when none is open or opening.      *)
C36_OneSttConnection == SttConnectionsUp <= 1
----------------------------------------------------------------------------
(* Properties of the TTS adapters.                                         *)

\* The texts no adapter is to speak: empty, whitespace, one punctuation mark.
Unspeakable == {sEmpty, sSpace, sDot}

(* C9: on every TTS adapter, sendText with "", " " or "." makes no message *)
(* or request to the provider, and no audio callback follows from it.      *)
C9_UnspeakableTextIsSkipped ==
    /\ \A k \in 1..Len(providerLog) :
          providerLog[k].src = "sendText" => providerLog[k].text \notin Unspeakable
    /\ \A k \in audioFor :
          providerLog[k].src = "sendText" => providerLog[k].text \notin Unspeakable


\* The ways a sendText call ends without the text reaching the provider
\* although the caller asked for speech: no connection, a send that threw, a
\* send the socket discarded, a request that failed.
FailedSends == {"not connected", "threw", "discarded", "request failed"}

(* C13 (claimed; refuted by the code): when sendText is called without a   *)
(* live session, or the provider request fails, the caller's promise is    *)
(* rejected; the text is never dropped silently.                           *)
C13_FailedSendIsSurfaced ==
    \A i \in 1..Len(sendLog) :
        sendLog[i] \in FailedSends => Settles(sendLog[i]) = "rejected"

(* C22: after close() on ElevenLabsTTS reconnection is disabled and the    *)
(* session released: shouldReconnect is false, isConnected is false, ws is *)
(* null, no heartbeat timer is active, and no reconnect timer has created  *)
(* a socket since.                                                         *)
C22_CloseReleasesSession ==
    (ttsKind = "elevenlabs" /\ ttsClosed) =>
        /\ ~ttsShouldReconnect
        /\ ~isConnected
        /\ ttsWs = "null"
        /\ ~heartbeatInterval
        /\ intervals = 0
        /\ ~ttsCreatedAfterClose

(* C23: on every connection and reconnection of ElevenLabsTTS the initial  *)
(* configuration message is the first message sent on the new socket: no   *)
(* text of sendText, no halt message and no heartbeat reaches the socket   *)
(* before it.                                                              *)
C23_HandshakeIsFirst ==
    Len(wire) > 0 => wire[1] = "handshake"

\* A socket created by a reconnect has received its handshake and then a text.
C23_Witness ==
    /\ ttsCreated >= 2
    /\ ttsWs = "OPEN"
    /\ wire = << "handshake", "text" >>

\* The session is connected: the flag is set and the socket of this.ws is open.
SessionConnected == isConnected /\ ttsWs = "OPEN"

\* This step delivered a keep-alive to the provider.
KeepAliveSent ==
    /\ Len(providerLog') = Len(providerLog) + 1
    /\ providerLog'[Len(providerLog')].src = "heartbeat"

(* C24: while an ElevenLabsTTS session is connected its heartbeat interval *)
(* is set, so that a keep-alive is sent at each of its ticks; a keep-alive *)
(* is sent only while the session is connected.                            *)
C24_KeepAliveWhileConnected ==
    /\ [](SessionConnected => (heartbeatInterval /\ intervals >= 1))
    /\ [][KeepAliveSent => SessionConnected]_vars

\* A connected session whose socket has received the handshake and a keep-alive.
C24_Witness ==
    /\ SessionConnected
    /\ wire = << "handshake", "heartbeat" >>

\* The sendText calls that are still polling for the connection.
CallsWaiting == { waitingSends[w].n : w \in 1..Len(waitingSends) }

(* C31: the flushes of one generation reach the TTS provider in emission    *)
(* order: of two sendText calls made for the same generation, the text of   *)
(* the earlier one goes out before the text of the later one, so no text    *)
(* goes out while an earlier call is still waiting to send its own.         *)
C31_FlushesReachProviderInOrder ==
    /\ \A i, j \in 1..Len(sentOrder) : i < j => sentOrder[i] < sentOrder[j]
    /\ \A i \in 1..Len(sentOrder) : \A n \in CallsWaiting : sentOrder[i] < n

\* The sockets that have been created and have neither opened nor closed.
ConnectingSockets == (IF ttsWs = "CONNECTING" THEN 1 ELSE 0) + ttsOrphans["CONNECTING"]

\* The connect() calls whose promise is neither resolved nor rejected: those
\* whose socket is still connecting and those whose socket is gone.
OpenConnectPromises == ConnectingSockets + unsettledConnects

(* C32: every call to connect() eventually completes, by resolving or by    *)
(* rejecting, also when the transport errors or closes before it opens: no  *)
(* connect() promise stays pending for ever.                                *)
C32_EveryConnectCompletes ==
    (OpenConnectPromises > 0) ~> (OpenConnectPromises = 0)

\* The WebSockets of the ElevenLabs adapter that are open or opening: the one
\* this.ws refers to and those it no longer refers to.
TtsSocketsUp ==
    (IF ttsWs \in {"CONNECTING", "OPEN"} THEN 1 ELSE 0)
        + ttsOrphans["CONNECTING"] + ttsOrphans["OPEN"]

(* C37: an ElevenLabsTTS instance never has more than one WebSocket open or *)
(* opening at the same time: connect() and the reconnect timers create a    *)
(* socket only when the adapter has none that is open or opening.           *)
C37_OneTtsSocket == ttsKind = "elevenlabs" => TtsSocketsUp <= 1

\* The heartbeat timers of the adapter that are running.
HeartbeatTimers == intervals

(* C40: at most one heartbeat interval timer is active per ElevenLabsTTS    *)
(* instance, and whenever the adapter is not connected no heartbeat timer   *)
(* remains.                                                                 *)
C40_OneHeartbeatTimer ==
    ttsKind = "elevenlabs" =>
        /\ HeartbeatTimers <= 1
        /\ ~isConnected => HeartbeatTimers = 0

(* C38: with InworldTTS the audio callback for sentence k fires before the  *)
(* audio callback for sentence k + 1, in whatever order the responses of    *)
(* the requests arrive.                                                     *)
C38_AudioInSentenceOrder ==
    ttsKind = "inworld" =>
        \A i, j \in 1..Len(audioOrder) : i < j => audioOrder[i] < audioOrder[j]
----------------------------------------------------------------------------
(* Properties of the path from the STT session's transcripts to the        *)
(* conversation log.                                                       *)

IsPrefix(a, b) == Len(a) <= Len(b) /\ SubSeq(b, 1, Len(a)) = a

\* The final transcripts of the log, in order.
FinalTranscripts == SelectSeq(transcriptLog, LAMBDA t : t.isFinal)

\* The first final transcript after transcript i, 0 if there is none yet.
NextFinal(i) ==
    LET later == {j \in (i + 1)..Len(transcriptLog) : transcriptLog[j].isFinal}
    IN IF later = {} THEN 0 ELSE CHOOSE j \in later : \A l \in later : j <= l

\* The log is what a provider delivers utterance by utterance: no transcript
\* is empty, and each partial transcript is a prefix of the final transcript
\* that ends its utterance.
UtterancesWellFormed ==
    \A i \in 1..Len(transcriptLog) :
        /\ transcriptLog[i].text # <<>>
        /\ (~transcriptLog[i].isFinal /\ NextFinal(i) # 0)
              => IsPrefix(transcriptLog[i].text, transcriptLog[NextFinal(i)].text)

(* C11 (claimed; refuted by the code): when the provider's final transcript *)
(* of an utterance is T, possibly after partial transcripts of the same    *)
(* utterance, exactly one user message is committed for the utterance and  *)
(* its text is T.                                                          *)
C11_MessageIsFinalTranscript ==
    UtterancesWellFormed =>
        /\ Len(messages) = Len(FinalTranscripts)
        /\ \A k \in 1..Len(messages) : messages[k].content = FinalTranscripts[k].text

\* No transcript delivered so far is final.
NoFinalTranscript == \A i \in 1..Len(transcriptLog) : ~transcriptLog[i].isFinal

(* C12: as long as the STT session has emitted no final transcript for the *)
(* audio frames received, no user message is committed to the conversation *)
(* log and no LLM generation is started.                                   *)
C12_NoFinalNoMessage ==
    NoFinalTranscript => (messages = <<>> /\ UsedGenerations = {} /\ currentAbortController = 0)

\* Audio frames went to STT and partial transcripts with text came back and
\* were accumulated, and nothing was committed or generated.
C12_Witness ==
    /\ sttAudio = MaxFrames
    /\ Len(transcriptLog) >= 2
    /\ NoFinalTranscript
    /\ Len(transcriptAccumulator) >= 2
    /\ messages = <<>>
    /\ UsedGenerations = {}


(* C21: STT and TTS fail independently while the session is initialised.   *)
(* When the STT connection fails, onStart still leaves a TTS session       *)
(* assigned; when the TTS connection fails, it leaves the STT session      *)
(* assigned.                                                               *)
C21_ServicesFailIndependently ==
    [][ /\ OnStartSttFails => tts'
        /\ OnStartTtsFails => stt' ]_vars

\* The non-empty transcript texts delivered so far, in arrival order.
ArrivedTexts ==
    LET heard == SelectSeq(transcriptLog, LAMBDA t : Len(t.text) > 0)
    IN [i \in 1..Len(heard) |-> heard[i].text]

\* The fragments of the first n committed messages, message after message.
RECURSIVE CommittedParts(_)
CommittedParts(n) ==
    IF n = 0 THEN << >> ELSE CommittedParts(n - 1) \o messages[n].parts

\* The latest transcript delivered was final.
EndedOnFinal == Len(transcriptLog) > 0 /\ transcriptLog[Len(transcriptLog)].isFinal

(* C39: every non-empty transcript text delivered by the STT session is in  *)
(* exactly one committed user message, in arrival order, once a final       *)
(* transcript has followed it: the fragments of the committed messages,     *)
(* followed by those still accumulated, are the texts that arrived, and     *)
(* nothing stays accumulated after a final transcript, also when the        *)
(* transcripts arrive while the saveMessages of an earlier message is       *)
(* pending.                                                                 *)
C39_EveryFragmentCommittedOnce ==
    /\ CommittedParts(Len(messages)) \o transcriptAccumulator = ArrivedTexts
    /\ EndedOnFinal => transcriptAccumulator = << >>

\* A message was committed and, while the generation its saveMessages started
\* was still running, more transcripts arrived and a second message with two
\* of them was committed.
C39_Witness ==
    /\ Len(messages) = 2
    /\ abortSeen
    /\ Len(messages[2].parts) = 2
    /\ EndedOnFinal
----------------------------------------------------------------------------
(* Properties of the callback lists.                                       *)

\* The latest event is a transcript with text, delivered to an STT adapter.
TranscriptEvent == lastEvent.seen /\ cbKind \in SttKinds /\ lastEvent.data # <<>>

\* No callback registered at the time of the latest event threw.
NoneThrew ==
    \A i \in 1..Len(lastEvent.registered) : lastEvent.registered[i] # lastEvent.thrower

(* C16 (claimed; refuted by the code): for every transcript event the STT  *)
(* provider delivers, partial or final, each registered transcription      *)
(* callback is invoked once, in registration order, and a callback removed *)
(* with offTranscription is not invoked.                                   *)
C16_EveryTranscriptReachesCallbacks ==
    (TranscriptEvent /\ NoneThrew) =>
        /\ lastEvent.invoked = lastEvent.registered
        /\ \A i \in 1..Len(lastEvent.invoked) : lastEvent.invoked[i] \notin lastEvent.removed

(* C17 (claimed; refuted by the code): when a registered callback throws,  *)
(* the remaining registered callbacks are still invoked for that event, in *)
(* every adapter.                                                          *)
C17_ThrowDoesNotStopCallbacks ==
    (lastEvent.seen /\ Forwards(cbKind, lastEvent)) =>
        lastEvent.invoked = lastEvent.registered
----------------------------------------------------------------------------
(* Properties of the audio codecs.                                         *)

Abs(x) == IF x < 0 THEN -x ELSE x

\* The exponent band of a sample, as the encoder finds it, and the width of
\* one quantization step in that band (the encoder drops exponent + 3 bits).
ExponentBand(s) ==
    FirstExponent((IF Abs(s) > 8159 THEN 8159 ELSE Abs(s)) + 132, 0)

QuantizationStep(s) == 2^(ExponentBand(s) + 3)

(* C26: for every 16-bit PCM sample s, decoding the mu-law byte that       *)
(* encodes s gives a value that differs from s by no more than the         *)
(* quantization step of the exponent band of s.                            *)
C26_RoundTripWithinStep ==
    pcmOut # << >> => Abs(pcmOut[1] - sample) <= QuantizationStep(sample)

(* C27: given a WAV buffer with a data chunk of N bytes, whatever precedes *)
(* or follows the chunk, extractMulawFromWav returns exactly those N       *)
(* bytes; given a buffer without a data tag it returns an empty array.     *)
C27_ExtractsDataChunk ==
    extractDone => extracted = (IF hasData THEN wavData ELSE << >>)
====
